---- MODULE Spec2Model ----
(***************************************************************************)
(* Self-balancing search trees of the repository: the AVL tree             *)
(* (src/src/avl_tree.c), the red-black tree (src/src/rbtree.c) and the     *)
(* B-tree (src/src/btree.c), modelled over an explicit heap of nodes.      *)
(* A node is a heap cell named by a positive integer; 0 is the C NULL.     *)
(***************************************************************************)
EXTENDS Integers, Sequences, FiniteSets, TLC

\* ---------------------------------------------------------------- bounds
\* The keys offered to the AVL tree are 0..AvlMaxKey, to the red-black tree
\* 0..RbMaxKey.
AvlMaxKey == 6
RbMaxKey == 5
\* The B-tree driver that may repeat a key offers 1..BtDupMaxKey and stops
\* inserting at BtMaxCount stored keys; the driver that inserts absent keys
\* only offers 1..BtMaxKey.
BtDupMaxKey == 3
BtMaxCount == 5
BtMaxKey == 9
\* The minimum degrees the B-tree is created with are 2..BtMaxT.
BtMaxT == 3
\* The driver of the B-tree of minimum degree 2 offers 1..BtDeepMaxKey, enough
\* for an internal node of two keys below the root.
BtDeepMaxKey == 10
\* The driver that only inserts offers 1..BtInsMaxKey.
BtInsMaxKey == 10
\* The keys and the allocations per call of the driver with failing allocations.
BtFailMaxKey == 7
BtMaxAllocs == 3

AvlKeys == 0..AvlMaxKey
RbKeys == 0..RbMaxKey

NULL == 0

VARIABLES
    handle,     \* which structure the driver program created: "avl", "rb" or
                \* "btree"; "killed" once the process died inside a call
    avl_heap,   \* allocated AVLNode cells: id -> [key, left, right, height]
    avl_root,   \* AVLTree.root
    avl_size,   \* AVLTree.size
    rb_heap,    \* allocated RBNode cells, the sentinel among them
    rb_root,    \* RBTree.root
    rb_size,    \* RBTree.size
    bt_t,       \* BTree.t, the minimum degree
    bt_heap,    \* allocated BTreeNode cells: id -> [keys, children, is_leaf]
    bt_root,    \* BTree.root
    last        \* the last call made on the handle: [op, key, ret]

avl_vars == <<avl_heap, avl_root, avl_size>>
rb_vars == <<rb_heap, rb_root, rb_size>>
bt_vars == <<bt_t, bt_heap, bt_root>>

vars == <<handle, avl_vars, rb_vars, bt_vars, last>>

\* ------------------------------------------------------------------ heap
\* malloc: the lowest cell of `ids` that is not allocated in heap h.
Malloc(h, ids) == CHOOSE n \in ids \ DOMAIN h : \A m \in ids \ DOMAIN h : n <= m

\* free(n): the cell leaves the heap.
Free(h, n) == [x \in (DOMAIN h) \ {n} |-> h[x]]

\* The value of a pointer whose cell has been freed.
DANGLING == -1

\* Addresses carry no meaning in the code (no pointer is compared for order or
\* printed), so between two calls the cells are named by their place in a
\* walk of the tree: the reachable cells in pre-order, then the allocated
\* cells no walk reaches, by address.  Two heaps that differ in addresses
\* only are one state.
Range(seq) == {seq[i] : i \in 1..Len(seq)}

RECURSIVE Ascending(_)
Ascending(S) ==
    IF S = {} THEN <<>>
    ELSE LET m == CHOOSE x \in S : \A y \in S : x <= y
         IN  <<m>> \o Ascending(S \ {m})

\* The new name of pointer p under the walk `order`; `fixed` are the pointer
\* values that are no heap cell to rename (NULL, the sentinel).
Renamed(order, fixed, p) ==
    IF p \in fixed THEN p
    ELSE IF p \in Range(order) THEN CHOOSE i \in 1..Len(order) : order[i] = p
    ELSE DANGLING

\* ============================================================ AVL tree
AvlIds == 1..(AvlMaxKey + 1)

create_new_avl_node(key) ==
    [key |-> key, left |-> NULL, right |-> NULL, height |-> 0]

max_int_internal(a, b) == IF a > b THEN a ELSE b

get_node_height_internal(h, node) ==
    IF node = NULL THEN -1 ELSE h[node].height

\* update_node_height_internal without the "1 +" of line 49.
update_node_height_internal_no_increment(h, node) ==
    IF node # NULL
    THEN [h EXCEPT ![node].height =
            max_int_internal(get_node_height_internal(h, h[node].left),
                             get_node_height_internal(h, h[node].right))]
    ELSE h

update_node_height_internal(h, node) ==
    IF node # NULL
    THEN [h EXCEPT ![node].height =
            1 + max_int_internal(get_node_height_internal(h, h[node].left),
                                 get_node_height_internal(h, h[node].right))]
    ELSE h

get_balance_factor_internal(h, node) ==
    IF node = NULL THEN 0
    ELSE get_node_height_internal(h, h[node].left)
         - get_node_height_internal(h, h[node].right)

\* Both rotations return the heap and the new root of the rotated subtree.
right_rotate_internal(h, y) ==
    IF y = NULL \/ h[y].left = NULL THEN [h |-> h, node |-> y]
    ELSE LET x  == h[y].left
             T2 == h[x].right
             h1 == [h EXCEPT ![x].right = y, ![y].left = T2]
             h2 == update_node_height_internal(h1, y)
             h3 == update_node_height_internal(h2, x)
         IN  [h |-> h3, node |-> x]

left_rotate_internal(h, x) ==
    IF x = NULL \/ h[x].right = NULL THEN [h |-> h, node |-> x]
    ELSE LET y  == h[x].right
             T2 == h[y].left
             h1 == [h EXCEPT ![y].left = x, ![x].right = T2]
             h2 == update_node_height_internal(h1, x)
             h3 == update_node_height_internal(h2, y)
         IN  [h |-> h3, node |-> y]

\* find_min_node_internal that does not walk to the left.
find_min_node_internal_no_walk(h, node) == node

RECURSIVE find_min_node_internal(_, _)
find_min_node_internal(h, node) ==
    IF node # NULL /\ h[node].left # NULL
    THEN find_min_node_internal(h, h[node].left)
    ELSE node

\* insert_rebalance with a single rotation in the left-right and right-left
\* cases.
insert_rebalance_single_rotation(h0, node, key) ==
    LET h       == update_node_height_internal(h0, node)
        balance == get_balance_factor_internal(h, node)
    IN  IF balance > 1
        THEN right_rotate_internal(h, node)
        ELSE IF balance < -1
        THEN left_rotate_internal(h, node)
        ELSE [h |-> h, node |-> node]

\* Steps 2-4 of insert_recursive_internal: height, balance factor, rotations.
insert_rebalance(h0, node, key) ==
    LET h       == update_node_height_internal(h0, node)
        balance == get_balance_factor_internal(h, node)
    IN  IF balance > 1 /\ key < h[h[node].left].key
        THEN right_rotate_internal(h, node)
        ELSE IF balance < -1 /\ key > h[h[node].right].key
        THEN left_rotate_internal(h, node)
        ELSE IF balance > 1 /\ key > h[h[node].left].key
        THEN LET r == left_rotate_internal(h, h[node].left)
             IN  right_rotate_internal([r.h EXCEPT ![node].left = r.node], node)
        ELSE IF balance < -1 /\ key < h[h[node].right].key
        THEN LET r == right_rotate_internal(h, h[node].right)
             IN  left_rotate_internal([r.h EXCEPT ![node].right = r.node], node)
        ELSE [h |-> h, node |-> node]

\* insert_recursive_internal with (*size_ptr)++ ahead of the test of the
\* pointer create_new_avl_node returned.
RECURSIVE insert_recursive_internal_size_first(_, _, _, _, _, _)
insert_recursive_internal_size_first(h, node, key, flag, size, ok) ==
    IF node = NULL
    THEN IF ~ok
         THEN [h |-> h, node |-> NULL, flag |-> -1, size |-> size + 1]
         ELSE LET n == Malloc(h, AvlIds)
              IN  [h    |-> (n :> create_new_avl_node(key)) @@ h,
                   node |-> n, flag |-> 0, size |-> size + 1]
    ELSE IF key = h[node].key
    THEN [h |-> h, node |-> node, flag |-> 1, size |-> size]
    ELSE LET r  == IF key < h[node].key
                   THEN insert_recursive_internal_size_first(h, h[node].left, key, flag, size, ok)
                   ELSE insert_recursive_internal_size_first(h, h[node].right, key, flag, size, ok)
             h1 == IF key < h[node].key
                   THEN [r.h EXCEPT ![node].left = r.node]
                   ELSE [r.h EXCEPT ![node].right = r.node]
             b  == insert_rebalance(h1, node, key)
         IN  [h |-> b.h, node |-> b.node, flag |-> r.flag, size |-> r.size]

\* Returns [h, node, flag, size]: the heap, the new subtree root, *success_flag
\* and *size_ptr.  ok is the outcome of malloc in create_new_avl_node.
RECURSIVE insert_recursive_internal(_, _, _, _, _, _)
insert_recursive_internal(h, node, key, flag, size, ok) ==
    IF node = NULL
    THEN IF ~ok
         THEN [h |-> h, node |-> NULL, flag |-> -1, size |-> size]
         ELSE LET n == Malloc(h, AvlIds)
              IN  [h    |-> (n :> create_new_avl_node(key)) @@ h,
                   node |-> n, flag |-> 0, size |-> size + 1]
    ELSE IF key = h[node].key
    THEN [h |-> h, node |-> node, flag |-> 1, size |-> size]
    ELSE LET r  == IF key < h[node].key
                   THEN insert_recursive_internal(h, h[node].left, key, flag, size, ok)
                   ELSE insert_recursive_internal(h, h[node].right, key, flag, size, ok)
             h1 == IF key < h[node].key
                   THEN [r.h EXCEPT ![node].left = r.node]
                   ELSE [r.h EXCEPT ![node].right = r.node]
             b  == insert_rebalance(h1, node, key)
         IN  [h |-> b.h, node |-> b.node, flag |-> r.flag, size |-> r.size]

\* The tail of delete_recursive_internal with the thresholds of the balance
\* factor off by one: it rotates a node whose subtrees differ by one level.
delete_rebalance_threshold(h0, node) ==
    LET h       == update_node_height_internal(h0, node)
        balance == get_balance_factor_internal(h, node)
    IN  IF balance > 0 /\ get_balance_factor_internal(h, h[node].left) >= 0
        THEN right_rotate_internal(h, node)
        ELSE IF balance > 0 /\ get_balance_factor_internal(h, h[node].left) < 0
        THEN LET r == left_rotate_internal(h, h[node].left)
             IN  right_rotate_internal([r.h EXCEPT ![node].left = r.node], node)
        ELSE IF balance < 0 /\ get_balance_factor_internal(h, h[node].right) <= 0
        THEN left_rotate_internal(h, node)
        ELSE IF balance < 0 /\ get_balance_factor_internal(h, h[node].right) > 0
        THEN LET r == right_rotate_internal(h, h[node].right)
             IN  left_rotate_internal([r.h EXCEPT ![node].right = r.node], node)
        ELSE [h |-> h, node |-> node]

\* The tail of delete_recursive_internal: height, balance factor, rotations.
delete_rebalance(h0, node) ==
    LET h       == update_node_height_internal(h0, node)
        balance == get_balance_factor_internal(h, node)
    IN  IF balance > 1 /\ get_balance_factor_internal(h, h[node].left) >= 0
        THEN right_rotate_internal(h, node)
        ELSE IF balance > 1 /\ get_balance_factor_internal(h, h[node].left) < 0
        THEN LET r == left_rotate_internal(h, h[node].left)
             IN  right_rotate_internal([r.h EXCEPT ![node].left = r.node], node)
        ELSE IF balance < -1 /\ get_balance_factor_internal(h, h[node].right) <= 0
        THEN left_rotate_internal(h, node)
        ELSE IF balance < -1 /\ get_balance_factor_internal(h, h[node].right) > 0
        THEN LET r == right_rotate_internal(h, h[node].right)
             IN  left_rotate_internal([r.h EXCEPT ![node].right = r.node], node)
        ELSE [h |-> h, node |-> node]

\* Lines 176-192 of delete_recursive_internal without the decrement of line 192.
delete_node_with_one_or_no_child_size_kept(h, node, size) ==
    [h    |-> Free(h, node),
     node |-> IF h[node].left # NULL THEN h[node].left ELSE h[node].right,
     size |-> size]

\* Lines 176-192 of delete_recursive_internal, the node to delete has one
\* child or none: [h, node, size], the child takes the place of the node, the
\* node is freed and *size_ptr decremented.
delete_node_with_one_or_no_child(h, node, size) ==
    [h    |-> Free(h, node),
     node |-> IF h[node].left # NULL THEN h[node].left ELSE h[node].right,
     size |-> size - 1]

\* Returns [h, node, flag, size] as insert_recursive_internal does.
RECURSIVE delete_recursive_internal(_, _, _, _, _)
delete_recursive_internal(h, node, key, flag, size) ==
    IF node = NULL
    THEN [h |-> h, node |-> NULL, flag |-> 1, size |-> size]
    ELSE IF key < h[node].key
    THEN LET r == delete_recursive_internal(h, h[node].left, key, flag, size)
             b == delete_rebalance([r.h EXCEPT ![node].left = r.node], node)
         IN  [h |-> b.h, node |-> b.node, flag |-> r.flag, size |-> r.size]
    ELSE IF key > h[node].key
    THEN LET r == delete_recursive_internal(h, h[node].right, key, flag, size)
             b == delete_rebalance([r.h EXCEPT ![node].right = r.node], node)
         IN  [h |-> b.h, node |-> b.node, flag |-> r.flag, size |-> r.size]
    ELSE IF h[node].left = NULL \/ h[node].right = NULL
    THEN LET u == delete_node_with_one_or_no_child(h, node, size)
         IN  IF u.node = NULL
             THEN [h |-> u.h, node |-> NULL, flag |-> 0, size |-> u.size]
             ELSE LET b == delete_rebalance(u.h, u.node)
                  IN  [h |-> b.h, node |-> b.node, flag |-> 0, size |-> u.size]
    ELSE LET temp == find_min_node_internal(h, h[node].right)
             h1   == [h EXCEPT ![node].key = h[temp].key]
             r    == delete_recursive_internal(h1, h1[node].right, h[temp].key, 1, size)
             b    == delete_rebalance([r.h EXCEPT ![node].right = r.node], node)
         IN  [h |-> b.h, node |-> b.node, flag |-> 0, size |-> r.size]

RECURSIVE search_in_avl_tree_from(_, _, _)
search_in_avl_tree_from(h, current, key) ==
    IF current = NULL THEN NULL
    ELSE IF key = h[current].key THEN current
    ELSE IF key < h[current].key
    THEN search_in_avl_tree_from(h, h[current].left, key)
    ELSE search_in_avl_tree_from(h, h[current].right, key)

search_in_avl_tree(h, root, key) == search_in_avl_tree_from(h, root, key)

\* insert_into_avl_tree on a non-NULL handle: [h, root, size, ret].
insert_into_avl_tree(h, root, size, key, ok) ==
    LET r == insert_recursive_internal(h, root, key, 0, size, ok)
    IN  [h |-> r.h, root |-> r.node, size |-> r.size, ret |-> r.flag]

\* delete_from_avl_tree on a non-NULL handle: [h, root, size, ret].
delete_from_avl_tree(h, root, size, key) ==
    LET r == delete_recursive_internal(h, root, key, 1, size)
    IN  IF root = NULL /\ key # 0
        THEN [h |-> h, root |-> root, size |-> size, ret |-> 1]
        ELSE [h |-> r.h, root |-> r.node, size |-> r.size, ret |-> r.flag]

\* ======================================================= red-black tree
RED == "RED"
BLACK == "BLACK"

\* tree->NIL, the sentinel: the first cell create_rbtree allocates, a cell of
\* rb_heap that is not the C NULL.
NIL == 1

\* One more cell than keys: insert_rbnode allocates its node before it looks
\* for a duplicate.
RbIds == 2..(RbMaxKey + 3)

\* A red-black tree value T is [h, root]: the heap of RBNode cells
\* [data, color, parent, left, right] and tree->root.

create_rb_node_internal(data) ==
    [data |-> data, color |-> RED, parent |-> NIL, left |-> NIL, right |-> NIL]

\* left_rotate without line 91: the subtree that changes sides keeps its
\* parent pointer.
left_rotate_child_parent_kept(T, x) ==
    LET y == T.h[x].right
        L101(h) == [h EXCEPT ![y].left = x, ![x].parent = y]
        L94(h)  == LET p == h[x].parent
                   IN  IF p = NIL
                       THEN [h |-> L101(h), root |-> y]
                       ELSE IF x = h[p].left
                       THEN [h |-> L101([h EXCEPT ![p].left = y]), root |-> T.root]
                       ELSE [h |-> L101([h EXCEPT ![p].right = y]), root |-> T.root]
        L93(h)  == L94([h EXCEPT ![y].parent = h[x].parent])
    IN  L93([T.h EXCEPT ![x].right = T.h[y].left])

left_rotate(T, x) ==
    LET y == T.h[x].right
        L101(h) == [h EXCEPT ![y].left = x, ![x].parent = y]
        L94(h)  == LET p == h[x].parent
                   IN  IF p = NIL
                       THEN [h |-> L101(h), root |-> y]
                       ELSE IF x = h[p].left
                       THEN [h |-> L101([h EXCEPT ![p].left = y]), root |-> T.root]
                       ELSE [h |-> L101([h EXCEPT ![p].right = y]), root |-> T.root]
        L93(h)  == L94([h EXCEPT ![y].parent = h[x].parent])
        L90(h)  == L93(IF h[y].left # NIL
                       THEN [h EXCEPT ![h[y].left].parent = x] ELSE h)
    IN  L90([T.h EXCEPT ![x].right = T.h[y].left])

right_rotate(T, y) ==
    LET x == T.h[y].left
        L119(h) == [h EXCEPT ![x].right = y, ![y].parent = x]
        L112(h) == LET p == h[y].parent
                   IN  IF p = NIL
                       THEN [h |-> L119(h), root |-> x]
                       ELSE IF y = h[p].left
                       THEN [h |-> L119([h EXCEPT ![p].left = x]), root |-> T.root]
                       ELSE [h |-> L119([h EXCEPT ![p].right = x]), root |-> T.root]
        L111(h) == L112([h EXCEPT ![x].parent = h[y].parent])
        L108(h) == L111(IF h[x].right # NIL
                        THEN [h EXCEPT ![h[x].right].parent = y] ELSE h)
    IN  L108([T.h EXCEPT ![y].left = T.h[x].right])

rb_transplant(T, u, v) ==
    LET p == T.h[u].parent
        L132(h) == [h EXCEPT ![v].parent = h[u].parent]
    IN  IF p = NIL
        THEN [h |-> L132(T.h), root |-> v]
        ELSE IF u = T.h[p].left
        THEN [h |-> L132([T.h EXCEPT ![p].left = v]), root |-> T.root]
        ELSE [h |-> L132([T.h EXCEPT ![p].right = v]), root |-> T.root]

\* One pass of the body of the while loop of rb_insert_fixup: [T, z].
rb_insert_fixup_step(T, z) ==
    LET zp == T.h[z].parent
        gp == T.h[T.h[z].parent].parent
        Case1(y) == [T |-> [T EXCEPT !.h = [T.h EXCEPT ![zp].color = BLACK,
                                                       ![y].color = BLACK,
                                                       ![gp].color = RED]],
                     z |-> gp]
        Recolor(T2, p, g) ==
            [T2 EXCEPT !.h = [T2.h EXCEPT ![p].color = BLACK, ![g].color = RED]]
        Case3L(T2, z2) ==
            [T |-> right_rotate(Recolor(T2, T2.h[z2].parent, T2.h[T2.h[z2].parent].parent),
                                T2.h[T2.h[z2].parent].parent),
             z |-> z2]
        Case3R(T2, z2) ==
            [T |-> left_rotate(Recolor(T2, T2.h[z2].parent, T2.h[T2.h[z2].parent].parent),
                               T2.h[T2.h[z2].parent].parent),
             z |-> z2]
    IN  IF zp = T.h[gp].left
        THEN IF T.h[T.h[gp].right].color = RED
             THEN Case1(T.h[gp].right)
             ELSE IF z = T.h[zp].right
             THEN Case3L(left_rotate(T, zp), zp)
             ELSE Case3L(T, z)
        ELSE IF T.h[T.h[gp].left].color = RED
             THEN Case1(T.h[gp].left)
             ELSE IF z = T.h[zp].left
             THEN Case3R(right_rotate(T, zp), zp)
             ELSE Case3R(T, z)

\* rb_insert_fixup without its last statement.
rb_insert_fixup_root_skipped(T) == T

\* The statement after the loop of rb_insert_fixup: tree->root->color = BLACK.
rb_insert_fixup_root(T) == [T EXCEPT !.h = [T.h EXCEPT ![T.root].color = BLACK]]

RECURSIVE rb_insert_fixup_loop(_)
rb_insert_fixup_loop(s) ==
    IF s.T.h[s.T.h[s.z].parent].color = RED
    THEN rb_insert_fixup_loop(rb_insert_fixup_step(s.T, s.z))
    ELSE s.T

rb_insert_fixup(T, z) == rb_insert_fixup_root(rb_insert_fixup_loop([T |-> T, z |-> z]))

\* The descent loop of insert_rbnode without the duplicate branch of lines
\* 200-203: an equal key descends to the right.
RECURSIVE rb_insert_descend_no_duplicate(_, _, _, _)
rb_insert_descend_no_duplicate(h, x, y, data) ==
    IF x = NIL THEN [y |-> y, dup |-> FALSE]
    ELSE IF data < h[x].data THEN rb_insert_descend_no_duplicate(h, h[x].left, x, data)
    ELSE rb_insert_descend_no_duplicate(h, h[x].right, x, data)

\* The descent loop of insert_rbnode from x with trailing pointer y:
\* [y, dup], dup when a node holding data was met.
RECURSIVE rb_insert_descend(_, _, _, _)
rb_insert_descend(h, x, y, data) ==
    IF x = NIL THEN [y |-> y, dup |-> FALSE]
    ELSE IF data < h[x].data THEN rb_insert_descend(h, h[x].left, x, data)
    ELSE IF data > h[x].data THEN rb_insert_descend(h, h[x].right, x, data)
    ELSE [y |-> x, dup |-> TRUE]

\* Lines 206-213 of insert_rbnode: z is linked below y.
rb_insert_link(T, z, y, data) ==
    IF y = NIL
    THEN [h |-> [T.h EXCEPT ![z].parent = y], root |-> z]
    ELSE IF data < T.h[y].data
    THEN [h |-> [T.h EXCEPT ![z].parent = y, ![y].left = z], root |-> T.root]
    ELSE [h |-> [T.h EXCEPT ![z].parent = y, ![y].right = z], root |-> T.root]

\* insert_rbnode on a non-NULL handle: [T, size, ret].  ok is the outcome of
\* malloc in create_rb_node_internal.
insert_rbnode(T, size, data, ok) ==
    LET z == Malloc(T.h, RbIds)
        Created == [T EXCEPT !.h = (z :> create_rb_node_internal(data)) @@ T.h]
        d == rb_insert_descend(T.h, T.root, NIL, data)
    IN  IF ~ok THEN [T |-> T, size |-> size, ret |-> -1]
        ELSE IF d.dup
        THEN [T |-> [T EXCEPT !.h = Free(Created.h, z)], size |-> size, ret |-> 1]
        ELSE [T    |-> rb_insert_fixup(rb_insert_link(Created, z, d.y, data), z),
              size |-> size + 1, ret |-> 0]

RECURSIVE rbtree_minimum_node(_, _)
rbtree_minimum_node(h, node) ==
    IF node = NIL THEN NIL
    ELSE IF h[node].left # NIL THEN rbtree_minimum_node(h, h[node].left)
    ELSE node

RECURSIVE search_rbnode_from(_, _, _)
search_rbnode_from(h, current, data) ==
    IF current = NIL THEN NIL
    ELSE IF data = h[current].data THEN current
    ELSE IF data < h[current].data THEN search_rbnode_from(h, h[current].left, data)
    ELSE search_rbnode_from(h, h[current].right, data)

\* search_rbnode with the two descents of lines 355 and 357 exchanged.
RECURSIVE search_rbnode_from_wrong_side(_, _, _)
search_rbnode_from_wrong_side(h, current, data) ==
    IF current = NIL THEN NIL
    ELSE IF data = h[current].data THEN current
    ELSE IF data < h[current].data
    THEN search_rbnode_from_wrong_side(h, h[current].right, data)
    ELSE search_rbnode_from_wrong_side(h, h[current].left, data)

search_rbnode_wrong_side(T, data) == search_rbnode_from_wrong_side(T.h, T.root, data)

search_rbnode(T, data) == search_rbnode_from(T.h, T.root, data)

\* One pass of the body of the while loop of rb_delete_fixup: [T, x].
rb_delete_fixup_step(T, x) ==
    LET xp == T.h[x].parent
        Exit(T7) == [T |-> T7, x |-> T7.root]
        Case2(T1, w) == [T |-> [T1 EXCEPT !.h = [T1.h EXCEPT ![w].color = RED]],
                         x |-> T1.h[x].parent]
        \* x is a left child
        Case4L(T3, w) ==
            left_rotate([T3 EXCEPT !.h = [T3.h EXCEPT
                             ![w].color = T3.h[T3.h[x].parent].color,
                             ![T3.h[x].parent].color = BLACK,
                             ![T3.h[w].right].color = BLACK]],
                        T3.h[x].parent)
        After3L(T3) == Case4L(T3, T3.h[T3.h[x].parent].right)
        Case3L(T1, w) ==
            IF T1.h[T1.h[w].right].color = BLACK
            THEN After3L(right_rotate([T1 EXCEPT !.h = [T1.h EXCEPT
                                           ![T1.h[w].left].color = BLACK,
                                           ![w].color = RED]], w))
            ELSE Case4L(T1, w)
        BodyL(T1, w) ==
            IF T1.h[T1.h[w].left].color = BLACK /\ T1.h[T1.h[w].right].color = BLACK
            THEN Case2(T1, w)
            ELSE Exit(Case3L(T1, w))
        After1L(T1) == BodyL(T1, T1.h[T1.h[x].parent].right)
        \* x is a right child
        Case4R(T3, w) ==
            right_rotate([T3 EXCEPT !.h = [T3.h EXCEPT
                              ![w].color = T3.h[T3.h[x].parent].color,
                              ![T3.h[x].parent].color = BLACK,
                              ![T3.h[w].left].color = BLACK]],
                         T3.h[x].parent)
        After3R(T3) == Case4R(T3, T3.h[T3.h[x].parent].left)
        Case3R(T1, w) ==
            IF T1.h[T1.h[w].left].color = BLACK
            THEN After3R(left_rotate([T1 EXCEPT !.h = [T1.h EXCEPT
                                          ![T1.h[w].right].color = BLACK,
                                          ![w].color = RED]], w))
            ELSE Case4R(T1, w)
        BodyR(T1, w) ==
            IF T1.h[T1.h[w].right].color = BLACK /\ T1.h[T1.h[w].left].color = BLACK
            THEN Case2(T1, w)
            ELSE Exit(Case3R(T1, w))
        After1R(T1) == BodyR(T1, T1.h[T1.h[x].parent].left)
    IN  IF x = T.h[xp].left
        THEN IF T.h[T.h[xp].right].color = RED
             THEN After1L(left_rotate([T EXCEPT !.h = [T.h EXCEPT
                                           ![T.h[xp].right].color = BLACK,
                                           ![xp].color = RED]], xp))
             ELSE BodyL(T, T.h[xp].right)
        ELSE IF T.h[T.h[xp].left].color = RED
             THEN After1R(right_rotate([T EXCEPT !.h = [T.h EXCEPT
                                            ![T.h[xp].left].color = BLACK,
                                            ![xp].color = RED]], xp))
             ELSE BodyR(T, T.h[xp].left)

\* rb_delete_fixup without the "x->color = BLACK" after its loop.
RECURSIVE rb_delete_fixup_loop_uncolored(_)
rb_delete_fixup_loop_uncolored(s) ==
    IF s.x # s.T.root /\ s.T.h[s.x].color = BLACK
    THEN rb_delete_fixup_loop_uncolored(rb_delete_fixup_step(s.T, s.x))
    ELSE s.T

RECURSIVE rb_delete_fixup_loop(_)
rb_delete_fixup_loop(s) ==
    IF s.x # s.T.root /\ s.T.h[s.x].color = BLACK
    THEN rb_delete_fixup_loop(rb_delete_fixup_step(s.T, s.x))
    ELSE [s.T EXCEPT !.h = [s.T.h EXCEPT ![s.x].color = BLACK]]

rb_delete_fixup(T, x) == rb_delete_fixup_loop([T |-> T, x |-> x])

\* ---- the fix-ups pass by pass
\* The test of the while loop of rb_insert_fixup on [T, z].
rb_insert_fixup_test(s) == s.T.h[s.T.h[s.z].parent].color = RED

\* The cells one pass of the loop of rb_insert_fixup colors RED: the
\* grandparent of z in case 1 (lines 146, 163) and, in case 3, of the z that
\* case 2 may have moved and rotated (lines 155, 172).
rb_insert_fixup_reds(T, z) ==
    LET zp == T.h[z].parent
        gp == T.h[T.h[z].parent].parent
        Grand(T2, z2) == T2.h[T2.h[z2].parent].parent
    IN  IF zp = T.h[gp].left
        THEN IF T.h[T.h[gp].right].color = RED THEN {gp}
             ELSE IF z = T.h[zp].right THEN {Grand(left_rotate(T, zp), zp)}
             ELSE {Grand(T, z)}
        ELSE IF T.h[T.h[gp].left].color = RED THEN {gp}
             ELSE IF z = T.h[zp].left THEN {Grand(right_rotate(T, zp), zp)}
             ELSE {Grand(T, z)}

\* The states [T, z] in which the loop test of rb_insert_fixup is evaluated,
\* the first on entry and the last the one in which it fails.
RECURSIVE rb_insert_fixup_passes(_)
rb_insert_fixup_passes(s) ==
    IF rb_insert_fixup_test(s)
    THEN <<s>> \o rb_insert_fixup_passes(rb_insert_fixup_step(s.T, s.z))
    ELSE <<s>>

\* The state in which insert_rbnode calls rb_insert_fixup for a key the tree
\* does not hold: z is allocated and linked.
rb_insert_fixup_entry(T, data) ==
    LET z == Malloc(T.h, RbIds)
        Created == [T EXCEPT !.h = (z :> create_rb_node_internal(data)) @@ T.h]
    IN  [T |-> rb_insert_link(Created, z, rb_insert_descend(T.h, T.root, NIL, data).y, data),
         z |-> z]

\* The test of the while loop of rb_delete_fixup on [T, x].
rb_delete_fixup_test(s) == s.x # s.T.root /\ s.T.h[s.x].color = BLACK

\* The cells one pass of the loop of rb_delete_fixup colors RED: x's parent
\* in case 1 (lines 240, 267), the sibling w in case 2 (246, 273) and case 3
\* (252, 279), and w in case 4 when x's parent is RED (257, 284).
rb_delete_fixup_reds(T, x) ==
    LET xp == T.h[x].parent
        Case4(T3, w) == IF T3.h[T3.h[x].parent].color = RED THEN {w} ELSE {}
        After3L(T3) == Case4(T3, T3.h[T3.h[x].parent].right)
        Case3L(T1, w) ==
            IF T1.h[T1.h[w].right].color = BLACK
            THEN {w} \cup After3L(right_rotate([T1 EXCEPT !.h = [T1.h EXCEPT
                                                    ![T1.h[w].left].color = BLACK,
                                                    ![w].color = RED]], w))
            ELSE Case4(T1, w)
        BodyL(T1, w) ==
            IF T1.h[T1.h[w].left].color = BLACK /\ T1.h[T1.h[w].right].color = BLACK
            THEN {w}
            ELSE Case3L(T1, w)
        After1L(T1) == BodyL(T1, T1.h[T1.h[x].parent].right)
        After3R(T3) == Case4(T3, T3.h[T3.h[x].parent].left)
        Case3R(T1, w) ==
            IF T1.h[T1.h[w].left].color = BLACK
            THEN {w} \cup After3R(left_rotate([T1 EXCEPT !.h = [T1.h EXCEPT
                                                   ![T1.h[w].right].color = BLACK,
                                                   ![w].color = RED]], w))
            ELSE Case4(T1, w)
        BodyR(T1, w) ==
            IF T1.h[T1.h[w].right].color = BLACK /\ T1.h[T1.h[w].left].color = BLACK
            THEN {w}
            ELSE Case3R(T1, w)
        After1R(T1) == BodyR(T1, T1.h[T1.h[x].parent].left)
    IN  IF x = T.h[xp].left
        THEN IF T.h[T.h[xp].right].color = RED
             THEN {xp} \cup After1L(left_rotate([T EXCEPT !.h = [T.h EXCEPT
                                                     ![T.h[xp].right].color = BLACK,
                                                     ![xp].color = RED]], xp))
             ELSE BodyL(T, T.h[xp].right)
        ELSE IF T.h[T.h[xp].left].color = RED
             THEN {xp} \cup After1R(right_rotate([T EXCEPT !.h = [T.h EXCEPT
                                                      ![T.h[xp].left].color = BLACK,
                                                      ![xp].color = RED]], xp))
             ELSE BodyR(T, T.h[xp].left)

RECURSIVE rb_delete_fixup_passes(_)
rb_delete_fixup_passes(s) ==
    IF rb_delete_fixup_test(s)
    THEN <<s>> \o rb_delete_fixup_passes(rb_delete_fixup_step(s.T, s.x))
    ELSE <<s>>

\* The splice of delete_rbnode without "y->color = z->color".
rb_delete_splice_color_kept(T, z, y) ==
    LET Adopt(T2) == [T2 EXCEPT !.h = [T2.h EXCEPT ![y].left = T2.h[z].left,
                                                   ![T2.h[z].left].parent = y]]
        TakeRight(Ta) == [Ta EXCEPT !.h = [Ta.h EXCEPT ![y].right = Ta.h[z].right,
                                                       ![Ta.h[z].right].parent = y]]
    IN  IF T.h[y].parent = z
        THEN Adopt(rb_transplant([T EXCEPT !.h = [T.h EXCEPT ![T.h[y].right].parent = y]],
                                 z, y))
        ELSE Adopt(rb_transplant(TakeRight(rb_transplant(T, y, T.h[y].right)), z, y))

\* The number of calls of left_rotate and right_rotate in one pass of the
\* loop of rb_insert_fixup: none in case 1, one in case 3, one more when
\* case 2 comes first.
rb_insert_fixup_rotations(T, z) ==
    LET zp == T.h[z].parent
        gp == T.h[T.h[z].parent].parent
    IN  IF zp = T.h[gp].left
        THEN IF T.h[T.h[gp].right].color = RED THEN 0
             ELSE IF z = T.h[zp].right THEN 2 ELSE 1
        ELSE IF T.h[T.h[gp].left].color = RED THEN 0
             ELSE IF z = T.h[zp].left THEN 2 ELSE 1

\* The same for one call of rb_insert_fixup entered in state s = [T, z].
RECURSIVE rb_insert_fixup_rotations_from(_)
rb_insert_fixup_rotations_from(s) ==
    IF rb_insert_fixup_test(s)
    THEN rb_insert_fixup_rotations(s.T, s.z)
         + rb_insert_fixup_rotations_from(rb_insert_fixup_step(s.T, s.z))
    ELSE 0

\* The number of rotations in one pass of the loop of rb_delete_fixup: one
\* in case 1, none in case 2, one in case 3 and one in case 4.
rb_delete_fixup_rotations(T, x) ==
    LET xp == T.h[x].parent
        BodyL(T1, w) ==
            IF T1.h[T1.h[w].left].color = BLACK /\ T1.h[T1.h[w].right].color = BLACK
            THEN 0
            ELSE IF T1.h[T1.h[w].right].color = BLACK THEN 2 ELSE 1
        After1L(T1) == BodyL(T1, T1.h[T1.h[x].parent].right)
        BodyR(T1, w) ==
            IF T1.h[T1.h[w].right].color = BLACK /\ T1.h[T1.h[w].left].color = BLACK
            THEN 0
            ELSE IF T1.h[T1.h[w].left].color = BLACK THEN 2 ELSE 1
        After1R(T1) == BodyR(T1, T1.h[T1.h[x].parent].left)
    IN  IF x = T.h[xp].left
        THEN IF T.h[T.h[xp].right].color = RED
             THEN 1 + After1L(left_rotate([T EXCEPT !.h = [T.h EXCEPT
                                               ![T.h[xp].right].color = BLACK,
                                               ![xp].color = RED]], xp))
             ELSE BodyL(T, T.h[xp].right)
        ELSE IF T.h[T.h[xp].left].color = RED
             THEN 1 + After1R(right_rotate([T EXCEPT !.h = [T.h EXCEPT
                                                ![T.h[xp].left].color = BLACK,
                                                ![xp].color = RED]], xp))
             ELSE BodyR(T, T.h[xp].left)

RECURSIVE rb_delete_fixup_rotations_from(_)
rb_delete_fixup_rotations_from(s) ==
    IF rb_delete_fixup_test(s)
    THEN rb_delete_fixup_rotations(s.T, s.x)
         + rb_delete_fixup_rotations_from(rb_delete_fixup_step(s.T, s.x))
    ELSE 0

\* Lines 317-334 of delete_rbnode: z has two children and y is its successor.
rb_delete_splice(T, z, y) ==
    LET Adopt(T2) == [T2 EXCEPT !.h = [T2.h EXCEPT ![y].left = T2.h[z].left,
                                                   ![T2.h[z].left].parent = y,
                                                   ![y].color = T2.h[z].color]]
        TakeRight(Ta) == [Ta EXCEPT !.h = [Ta.h EXCEPT ![y].right = Ta.h[z].right,
                                                       ![Ta.h[z].right].parent = y]]
    IN  IF T.h[y].parent = z
        THEN Adopt(rb_transplant([T EXCEPT !.h = [T.h EXCEPT ![T.h[y].right].parent = y]],
                                 z, y))
        ELSE Adopt(rb_transplant(TakeRight(rb_transplant(T, y, T.h[y].right)), z, y))

\* Lines 306-335 of delete_rbnode, unlinking z: [T, x, original_y_color].
rb_delete_unlink(T, z) ==
    LET y == rbtree_minimum_node(T.h, T.h[z].right)
    IN  IF T.h[z].left = NIL
        THEN [T |-> rb_transplant(T, z, T.h[z].right), x |-> T.h[z].right,
              original_y_color |-> T.h[z].color]
        ELSE IF T.h[z].right = NIL
        THEN [T |-> rb_transplant(T, z, T.h[z].left), x |-> T.h[z].left,
              original_y_color |-> T.h[z].color]
        ELSE [T |-> rb_delete_splice(T, z, y), x |-> T.h[y].right,
              original_y_color |-> T.h[y].color]

\* delete_rbnode with the fix-up called whatever the color of the position
\* that was removed.
rb_delete_finish_always_fixed(u, z) ==
    rb_delete_fixup([u.T EXCEPT !.h = Free(u.T.h, z)], u.x)

\* Lines 337-343 of delete_rbnode: free(z), then the fix-up when a BLACK
\* position was removed.
rb_delete_finish(u, z) ==
    IF u.original_y_color = BLACK
    THEN rb_delete_fixup([u.T EXCEPT !.h = Free(u.T.h, z)], u.x)
    ELSE [u.T EXCEPT !.h = Free(u.T.h, z)]

\* The states in which the loop test of rb_delete_fixup is evaluated when
\* delete_rbnode removes u's node z; none when the fix-up is not called.
rb_delete_finish_passes(u, z) ==
    IF u.original_y_color = BLACK
    THEN rb_delete_fixup_passes([T |-> [u.T EXCEPT !.h = Free(u.T.h, z)], x |-> u.x])
    ELSE <<>>

\* The rotations of delete_rbnode removing u's node z: those of the fix-up,
\* none when it is not called.
rb_delete_finish_rotations(u, z) ==
    IF u.original_y_color = BLACK
    THEN rb_delete_fixup_rotations_from([T |-> [u.T EXCEPT !.h = Free(u.T.h, z)], x |-> u.x])
    ELSE 0

\* delete_rbnode on a non-NULL handle: [T, size, ret].
delete_rbnode(T, size, data) ==
    LET z == search_rbnode(T, data)
    IN  IF z = NIL THEN [T |-> T, size |-> size, ret |-> 1]
        ELSE [T |-> rb_delete_finish(rb_delete_unlink(T, z), z),
              size |-> size - 1, ret |-> 0]

RECURSIVE RbPreorder(_, _)
RbPreorder(h, n) ==
    IF n = NIL THEN <<>>
    ELSE <<n>> \o RbPreorder(h, h[n].left) \o RbPreorder(h, h[n].right)

\* The red-black tree with the cells named by the pre-order walk; the
\* sentinel keeps its name.
RbCanon(T) ==
    LET pre   == RbPreorder(T.h, T.root)
        order == (<<NIL>> \o pre) \o Ascending((DOMAIN T.h) \ (Range(pre) \cup {NIL}))
        R(p)  == Renamed(order, {}, p)
        C(n)  == [data   |-> T.h[n].data,
                  color  |-> T.h[n].color,
                  parent |-> R(T.h[n].parent),
                  left   |-> R(T.h[n].left),
                  right  |-> R(T.h[n].right)]
    IN  [h    |-> [i \in 1..Len(order) |-> C(order[i])],
         root |-> R(T.root)]

RbTree == [h |-> rb_heap, root |-> rb_root]

RbInsert(data, ok) ==
    /\ handle = "rb"
    /\ LET r == insert_rbnode(RbTree, rb_size, data, ok)
           c == RbCanon(r.T)
       IN  /\ rb_heap' = c.h
           /\ rb_root' = c.root
           /\ rb_size' = r.size
           /\ last' = [op |-> "insert", key |-> data, ret |-> r.ret]
    /\ UNCHANGED <<handle, avl_vars, bt_vars>>

RbDelete(data) ==
    /\ handle = "rb"
    /\ LET r == delete_rbnode(RbTree, rb_size, data)
           c == RbCanon(r.T)
       IN  /\ rb_heap' = c.h
           /\ rb_root' = c.root
           /\ rb_size' = r.size
           /\ last' = [op |-> "delete", key |-> data, ret |-> r.ret]
    /\ UNCHANGED <<handle, avl_vars, bt_vars>>

\* ================================================================ B-tree
\* A BTreeNode cell is [keys, children, is_leaf]: keys is keys[0..num_keys),
\* so num_keys is Len(keys); children is the written prefix of the children
\* array, children[0..num_keys] in an internal node and empty in a leaf.
\* C indices count from 0, the sequences from 1.
BtIds == 1..(BtMaxKey + BtMaxCount + 4)

num_keys(h, node) == Len(h[node].keys)

\* array[i] = v on the written prefix of an array; a slot past it that was
\* never written is NULL.
Put(seq, i, v) ==
    [j \in 1..(IF i + 1 > Len(seq) THEN i + 1 ELSE Len(seq)) |->
        IF j = i + 1 THEN v ELSE IF j <= Len(seq) THEN seq[j] ELSE NULL]

\* The loops that shift the tail of an array right by one and write v at
\* index i, or shift it left over index i.
InsertAt(seq, i, v) == SubSeq(seq, 1, i) \o <<v>> \o SubSeq(seq, i + 1, Len(seq))

RemoveAt(seq, i) == SubSeq(seq, 1, i) \o SubSeq(seq, i + 2, Len(seq))

\* array[start + j] = vals[j] for j = 0, 1, ..., one write after the other.
RECURSIVE PutRun(_, _, _)
PutRun(seq, start, vals) ==
    IF vals = <<>> THEN seq
    ELSE PutRun(Put(seq, start, Head(vals)), start + 1, Tail(vals))

create_btree_node(is_leaf) ==
    [keys |-> <<>>, children |-> <<>>, is_leaf |-> is_leaf]

RECURSIVE search_recursive(_, _, _)
search_recursive(h, node, key) ==
    LET i == Cardinality({j \in 1..num_keys(h, node) :
                             \A m \in 1..j : key > h[node].keys[m]})
    IN  IF node = NULL THEN NULL
        ELSE IF i < num_keys(h, node) /\ key = h[node].keys[i + 1] THEN node
        ELSE IF h[node].is_leaf THEN NULL
        ELSE search_recursive(h, h[node].children[i + 1], key)

search_btree(h, root, key) ==
    IF root = NULL THEN FALSE ELSE search_recursive(h, root, key) # NULL

\* A heap in which a call wrote past the end of a node's arrays or went
\* through a child slot that holds no node: what the call leaves behind is
\* not defined, and the process may be killed inside it.
Overrun(h) == DANGLING \in DOMAIN h

OutOfBounds(h) == (DANGLING :> create_btree_node(TRUE)) @@ h

\* btree_split_child promoting keys[t] in place of keys[t - 1].
btree_split_child_late_median(h, parent_node, child_index, full_child_node, t, ok) ==
    LET new_sibling_node == Malloc(h, BtIds)
        c == h[full_child_node]
        sibling == [keys     |-> SubSeq(c.keys, t + 1, 2 * t - 1),
                    children |-> IF c.is_leaf THEN <<>>
                                 ELSE SubSeq(c.children, t + 1, 2 * t),
                    is_leaf  |-> c.is_leaf]
        shrunk == [keys     |-> SubSeq(c.keys, 1, t - 1),
                   children |-> IF c.is_leaf THEN <<>> ELSE SubSeq(c.children, 1, t),
                   is_leaf  |-> c.is_leaf]
        Promote(h1) ==
            [h1 EXCEPT ![parent_node].children = InsertAt(@, child_index + 1, new_sibling_node),
                       ![parent_node].keys = InsertAt(@, child_index, c.keys[t + 1])]
    IN  IF ~ok THEN h
        ELSE IF num_keys(h, parent_node) >= 2 * t - 1 THEN OutOfBounds(h)
        ELSE Promote([(new_sibling_node :> sibling) @@ h EXCEPT ![full_child_node] = shrunk])

\* btree_split_child: the heap.  ok is the outcome of create_btree_node; when
\* it returned NULL the function prints and returns (lines 152-156).  A
\* parent that holds 2t-1 keys has no room: children[2t] and keys[2t-1] lie
\* past its arrays.
btree_split_child(h, parent_node, child_index, full_child_node, t, ok) ==
    LET new_sibling_node == Malloc(h, BtIds)
        c == h[full_child_node]
        sibling == [keys     |-> SubSeq(c.keys, t + 1, 2 * t - 1),
                    children |-> IF c.is_leaf THEN <<>>
                                 ELSE SubSeq(c.children, t + 1, 2 * t),
                    is_leaf  |-> c.is_leaf]
        shrunk == [keys     |-> SubSeq(c.keys, 1, t - 1),
                   children |-> IF c.is_leaf THEN <<>> ELSE SubSeq(c.children, 1, t),
                   is_leaf  |-> c.is_leaf]
        Promote(h1) ==
            [h1 EXCEPT ![parent_node].children = InsertAt(@, child_index + 1, new_sibling_node),
                       ![parent_node].keys = InsertAt(@, child_index, c.keys[t])]
    IN  IF ~ok THEN h
        ELSE IF num_keys(h, parent_node) >= 2 * t - 1 THEN OutOfBounds(h)
        ELSE Promote([(new_sibling_node :> sibling) @@ h EXCEPT ![full_child_node] = shrunk])

\* The index the scan from the right stops at: while (i >= 0 && key < keys[i]) i--.
RECURSIVE scan_down(_, _, _)
scan_down(keys, i, key) ==
    IF i >= 0 /\ key < keys[i + 1] THEN scan_down(keys, i - 1, key) ELSE i

\* allocs holds the outcomes of the calls of create_btree_node in the order
\* they are made, TRUE for a node and FALSE for NULL; a call past its end
\* returns a node.
Allocated(allocs) == allocs = <<>> \/ Head(allocs)

Later(allocs) == IF allocs = <<>> THEN <<>> ELSE Tail(allocs)

\* btree_insert_nonfull whose descent after a split always takes the left
\* half.
RECURSIVE btree_insert_nonfull_left_half(_, _, _, _, _, _)
btree_insert_nonfull_left_half(h, node, key, t, allocs, stale) ==
    LET i == scan_down(h[node].keys, num_keys(h, node) - 1, key) + 1
        Descend(h1, j, a) ==
            IF Overrun(h1) THEN h1
            ELSE IF j + 1 > Len(h1[node].children) THEN OutOfBounds(h1)
            ELSE btree_insert_nonfull_left_half(h1, h1[node].children[j + 1], key, t, a, stale)
    IN  IF h[node].is_leaf
        THEN IF num_keys(h, node) >= 2 * t - 1 THEN OutOfBounds(h)
             ELSE [h EXCEPT ![node].keys = InsertAt(@, i, key)]
        ELSE IF num_keys(h, h[node].children[i + 1]) = 2 * t - 1
        THEN Descend(btree_split_child(h, node, i, h[node].children[i + 1], t,
                                       Allocated(allocs)), i, Later(allocs))
        ELSE Descend(h, i, allocs)

\* btree_insert_nonfull: the heap.  After a split that did not happen the
\* test of line 208 reads keys[i] with i = num_keys when the key belongs
\* under the last child: the value of a slot that holds no key, of which
\* stale is the outcome of the comparison.  A leaf that holds 2t-1 keys has
\* no room for keys[2t-1]; children[i] past the last child holds no node.
RECURSIVE btree_insert_nonfull(_, _, _, _, _, _)
btree_insert_nonfull(h, node, key, t, allocs, stale) ==
    LET i == scan_down(h[node].keys, num_keys(h, node) - 1, key) + 1
        Descend(h1, j, a) ==
            IF Overrun(h1) THEN h1
            ELSE IF j + 1 > Len(h1[node].children) THEN OutOfBounds(h1)
            ELSE btree_insert_nonfull(h1, h1[node].children[j + 1], key, t, a, stale)
        Greater(h1) ==
            IF i < num_keys(h1, node) THEN key > h1[node].keys[i + 1] ELSE stale
        AfterSplit(h1) == Descend(h1, IF Greater(h1) THEN i + 1 ELSE i, Later(allocs))
    IN  IF h[node].is_leaf
        THEN IF num_keys(h, node) >= 2 * t - 1 THEN OutOfBounds(h)
             ELSE [h EXCEPT ![node].keys = InsertAt(@, i, key)]
        ELSE IF num_keys(h, h[node].children[i + 1]) = 2 * t - 1
        THEN AfterSplit(btree_split_child(h, node, i, h[node].children[i + 1], t,
                                          Allocated(allocs)))
        ELSE Descend(h, i, allocs)

\* insert_btree whose new root is created as a leaf.
insert_btree_grown_leaf(h, root) ==
    LET new_root == Malloc(h, BtIds)
    IN  [h    |-> (new_root :> [create_btree_node(TRUE) EXCEPT !.children = Put(@, 0, root)]) @@ h,
         root |-> new_root]

\* Lines 222-230 of insert_btree: the heap in which the new root is allocated
\* and the full old root is its child 0, and the new root.
insert_btree_grown(h, root) ==
    LET new_root == Malloc(h, BtIds)
    IN  [h    |-> (new_root :> [create_btree_node(FALSE) EXCEPT !.children = Put(@, 0, root)]) @@ h,
         root |-> new_root]

\* insert_btree on a non-NULL handle: [h, root].
insert_btree(h, root, key, t, allocs, stale) ==
    LET g == insert_btree_grown(h, root)
    IN  IF num_keys(h, root) = 2 * t - 1
        THEN IF ~Allocated(allocs) THEN [h |-> h, root |-> root]
             ELSE [h    |-> btree_insert_nonfull(
                                btree_split_child(g.h, g.root, 0, root, t,
                                                  Allocated(Later(allocs))),
                                g.root, key, t, Later(Later(allocs)), stale),
                   root |-> g.root]
        ELSE [h |-> btree_insert_nonfull(h, root, key, t, allocs, stale), root |-> root]

\* The number of keys of each node btree_insert_nonfull is invoked on by
\* one call of it without allocation failure, the call itself first.
RECURSIVE btree_insert_nonfull_calls(_, _, _, _)
btree_insert_nonfull_calls(h, node, key, t) ==
    LET i == scan_down(h[node].keys, num_keys(h, node) - 1, key) + 1
        Descend(h1, j) ==
            IF Overrun(h1) \/ j + 1 > Len(h1[node].children) THEN <<>>
            ELSE btree_insert_nonfull_calls(h1, h1[node].children[j + 1], key, t)
        AfterSplit(h1) ==
            Descend(h1, IF ~Overrun(h1) /\ key > h1[node].keys[i + 1] THEN i + 1 ELSE i)
    IN  <<num_keys(h, node)>> \o
        (IF h[node].is_leaf THEN <<>>
         ELSE IF num_keys(h, h[node].children[i + 1]) = 2 * t - 1
         THEN AfterSplit(btree_split_child(h, node, i, h[node].children[i + 1], t, TRUE))
         ELSE Descend(h, i))

\* The same for insert_btree: a full root is split under a new root first.
insert_btree_nonfull_calls(h, root, key, t) ==
    IF num_keys(h, root) = 2 * t - 1
    THEN btree_insert_nonfull_calls(
             btree_split_child(insert_btree_grown(h, root).h, insert_btree_grown(h, root).root,
                               0, root, t, TRUE),
             insert_btree_grown(h, root).root, key, t)
    ELSE btree_insert_nonfull_calls(h, root, key, t)

RECURSIVE find_key_index_from(_, _, _)
find_key_index_from(keys, idx, key) ==
    IF idx < Len(keys) /\ keys[idx + 1] < key
    THEN find_key_index_from(keys, idx + 1, key) ELSE idx

find_key_index(h, node, key) == find_key_index_from(h[node].keys, 0, key)

remove_key_from_node(h, node, key_index) ==
    IF key_index < 0 \/ key_index >= num_keys(h, node) THEN h
    ELSE [h EXCEPT ![node].keys = RemoveAt(@, key_index)]

RECURSIVE get_predecessor_key(_, _)
get_predecessor_key(h, node) ==
    IF ~h[node].is_leaf
    THEN get_predecessor_key(h, h[node].children[num_keys(h, node) + 1])
    ELSE h[node].keys[num_keys(h, node)]

RECURSIVE get_successor_key(_, _)
get_successor_key(h, node) ==
    IF ~h[node].is_leaf
    THEN get_successor_key(h, h[node].children[1])
    ELSE h[node].keys[1]

\* The children an internal node keeps when its num_keys drops to n.
Keep(children, n) == SubSeq(children, 1, IF n + 1 < Len(children) THEN n + 1 ELSE Len(children))

borrow_from_prev_sibling(h, deficient_node, parent_node, idx, left_sibling) ==
    LET d == h[deficient_node]
        l == h[left_sibling]
        shifted == IF d.is_leaf THEN d.children ELSE <<d.children[1]>> \o d.children
    IN  [h EXCEPT ![deficient_node].keys = <<h[parent_node].keys[idx]>> \o @,
                  ![deficient_node].children =
                      IF l.is_leaf THEN shifted
                      ELSE Put(shifted, 0, l.children[Len(l.keys) + 1]),
                  ![parent_node].keys = Put(@, idx - 1, l.keys[Len(l.keys)]),
                  ![left_sibling].keys = SubSeq(@, 1, Len(@) - 1),
                  ![left_sibling].children = Keep(@, Len(l.keys) - 1)]

borrow_from_next_sibling(h, deficient_node, parent_node, idx, right_sibling) ==
    LET d == h[deficient_node]
        r == h[right_sibling]
    IN  [h EXCEPT ![deficient_node].keys = Put(@, Len(d.keys), h[parent_node].keys[idx + 1]),
                  ![deficient_node].children =
                      IF r.is_leaf THEN @ ELSE Put(@, Len(d.keys) + 1, r.children[1]),
                  ![parent_node].keys = Put(@, idx, r.keys[1]),
                  ![right_sibling].keys = Tail(@),
                  ![right_sibling].children = IF r.is_leaf THEN @ ELSE Tail(@)]

\* When both child slots hold the same node the loop of lines 364-367 runs
\* while i < right_child->num_keys and increments left_child->num_keys, the
\* same field, in its body: it writes past the end of keys[] without end.
merge_children(h, parent_node, idx, t) ==
    LET left_child == h[parent_node].children[idx + 1]
        right_child == h[parent_node].children[idx + 2]
        l == h[left_child]
        r == h[right_child]
        merged_keys == (l.keys \o <<h[parent_node].keys[idx + 1]>>) \o r.keys
        \* the two loops that copy right_child's children, lines 371-373 and 383-385
        first_copy == PutRun(l.children, Len(merged_keys) - Len(r.keys) - 1, r.children)
        original_left_child_num_children == (Len(merged_keys) - Len(r.keys) - 1) + 1
        second_copy == PutRun(first_copy, original_left_child_num_children, r.children)
    IN  IF left_child = right_child
        THEN (DANGLING :> create_btree_node(TRUE)) @@ h
        ELSE Free([h EXCEPT ![left_child].keys = merged_keys,
                            ![left_child].children = IF l.is_leaf THEN @ ELSE second_copy,
                            ![parent_node].keys = RemoveAt(@, idx),
                            ![parent_node].children = RemoveAt(@, idx + 1)],
                  right_child)

\* fill_child_if_needed that tries the right sibling before the left one.
fill_child_if_needed_right_first(h, parent_node, child_idx, t) ==
    LET child_to_fill == h[parent_node].children[child_idx + 1]
    IN  IF num_keys(h, child_to_fill) < t - 1 THEN h
        ELSE IF num_keys(h, child_to_fill) # t - 1 THEN h
        ELSE IF child_idx < num_keys(h, parent_node)
                /\ num_keys(h, h[parent_node].children[child_idx + 2]) >= t
        THEN borrow_from_next_sibling(h, child_to_fill, parent_node, child_idx,
                                      h[parent_node].children[child_idx + 2])
        ELSE IF child_idx > 0 /\ num_keys(h, h[parent_node].children[child_idx]) >= t
        THEN borrow_from_prev_sibling(h, child_to_fill, parent_node, child_idx,
                                      h[parent_node].children[child_idx])
        ELSE IF child_idx < num_keys(h, parent_node)
        THEN merge_children(h, parent_node, child_idx, t)
        ELSE merge_children(h, parent_node, child_idx - 1, t)

\* fill_child_if_needed that borrows but never merges.
fill_child_if_needed_no_merge(h, parent_node, child_idx, t) ==
    LET child_to_fill == h[parent_node].children[child_idx + 1]
    IN  IF num_keys(h, child_to_fill) # t - 1 THEN h
        ELSE IF child_idx > 0 /\ num_keys(h, h[parent_node].children[child_idx]) >= t
        THEN borrow_from_prev_sibling(h, child_to_fill, parent_node, child_idx,
                                      h[parent_node].children[child_idx])
        ELSE IF child_idx < num_keys(h, parent_node)
                /\ num_keys(h, h[parent_node].children[child_idx + 2]) >= t
        THEN borrow_from_next_sibling(h, child_to_fill, parent_node, child_idx,
                                      h[parent_node].children[child_idx + 2])
        ELSE h

\* fill_child_if_needed that leaves a child of t-1 keys as it is.
fill_child_if_needed_skipped(h, parent_node, child_idx, t) == h

fill_child_if_needed(h, parent_node, child_idx, t) ==
    LET child_to_fill == h[parent_node].children[child_idx + 1]
    IN  IF num_keys(h, child_to_fill) < t - 1 THEN h
        ELSE IF num_keys(h, child_to_fill) # t - 1 THEN h
        ELSE IF child_idx > 0 /\ num_keys(h, h[parent_node].children[child_idx]) >= t
        THEN borrow_from_prev_sibling(h, child_to_fill, parent_node, child_idx,
                                      h[parent_node].children[child_idx])
        ELSE IF child_idx < num_keys(h, parent_node)
                /\ num_keys(h, h[parent_node].children[child_idx + 2]) >= t
        THEN borrow_from_next_sibling(h, child_to_fill, parent_node, child_idx,
                                      h[parent_node].children[child_idx + 2])
        ELSE IF child_idx < num_keys(h, parent_node)
        THEN merge_children(h, parent_node, child_idx, t)
        ELSE merge_children(h, parent_node, child_idx - 1, t)

RECURSIVE btree_delete_recursive(_, _, _, _)
btree_delete_recursive(h, node, key, t) ==
    LET idx == find_key_index(h, node, key)
        left_child_of_key == h[node].children[idx + 1]
        right_child_of_key == h[node].children[idx + 2]
        Replace(child, k) ==
            btree_delete_recursive([h EXCEPT ![node].keys = Put(@, idx, k)], child, k, t)
        Into(h1, j) == btree_delete_recursive(h1, h1[node].children[j + 1], key, t)
        AfterFill(h1) ==
            Into(h1, IF idx > num_keys(h1, node) /\ idx > 0 THEN idx - 1 ELSE idx)
    IN  IF node = NULL \/ Overrun(h) THEN h
        ELSE IF idx < num_keys(h, node) /\ h[node].keys[idx + 1] = key
        THEN IF h[node].is_leaf
             THEN remove_key_from_node(h, node, idx)
             ELSE IF num_keys(h, left_child_of_key) >= t
             THEN Replace(left_child_of_key, get_predecessor_key(h, left_child_of_key))
             ELSE IF num_keys(h, right_child_of_key) >= t
             THEN Replace(right_child_of_key, get_successor_key(h, right_child_of_key))
             ELSE Into(merge_children(h, node, idx, t), idx)
        ELSE IF h[node].is_leaf THEN h
        ELSE IF num_keys(h, h[node].children[idx + 1]) < t
        THEN AfterFill(fill_child_if_needed(h, node, idx, t))
        ELSE Into(h, idx)

\* fill_child_if_needed merges the child at child_idx into its left sibling:
\* it holds t-1 keys, is the last child, and its left sibling has none to lend.
MergesIntoLeft(h, parent_node, child_idx, t) ==
    /\ num_keys(h, h[parent_node].children[child_idx + 1]) = t - 1
    /\ child_idx > 0
    /\ num_keys(h, h[parent_node].children[child_idx]) < t
    /\ child_idx >= num_keys(h, parent_node)

\* The invocations of btree_delete_recursive one call of it makes, itself
\* first: the node, the number of keys it holds when it is entered, and
\* merged, the left sibling the child of the descent was merged into by
\* fill_child_if_needed (NULL when no such merge took place in this call).
RECURSIVE btree_delete_recursive_calls(_, _, _, _)
btree_delete_recursive_calls(h, node, key, t) ==
    LET idx == find_key_index(h, node, key)
        left_child_of_key == h[node].children[idx + 1]
        right_child_of_key == h[node].children[idx + 2]
        Here(merged) == <<[node |-> node, n |-> num_keys(h, node), merged |-> merged]>>
        Replace(child, k) ==
            btree_delete_recursive_calls([h EXCEPT ![node].keys = Put(@, idx, k)], child, k, t)
        Into(h1, j) ==
            IF Overrun(h1) THEN <<>>
            ELSE btree_delete_recursive_calls(h1, h1[node].children[j + 1], key, t)
        AfterFill(h1) ==
            IF Overrun(h1) THEN <<>>
            ELSE Into(h1, IF idx > num_keys(h1, node) /\ idx > 0 THEN idx - 1 ELSE idx)
    IN  IF node = NULL \/ Overrun(h) THEN <<>>
        ELSE IF idx < num_keys(h, node) /\ h[node].keys[idx + 1] = key
        THEN IF h[node].is_leaf
             THEN Here(NULL)
             ELSE IF num_keys(h, left_child_of_key) >= t
             THEN Here(NULL) \o Replace(left_child_of_key,
                                        get_predecessor_key(h, left_child_of_key))
             ELSE IF num_keys(h, right_child_of_key) >= t
             THEN Here(NULL) \o Replace(right_child_of_key,
                                        get_successor_key(h, right_child_of_key))
             ELSE Here(NULL) \o Into(merge_children(h, node, idx, t), idx)
        ELSE IF h[node].is_leaf THEN Here(NULL)
        ELSE IF num_keys(h, h[node].children[idx + 1]) < t
        THEN Here(IF MergesIntoLeft(h, node, idx, t) THEN h[node].children[idx] ELSE NULL)
             \o AfterFill(fill_child_if_needed(h, node, idx, t))
        ELSE Here(NULL) \o Into(h, idx)

\* delete_btree that keeps its root whatever the recursive delete left in it.
btree_shrink_root_kept(h, root) == [h |-> h, root |-> root]

\* Lines 549-571 of delete_btree: an internal root left without a key gives
\* way to its first child.
btree_shrink_root(h, root) ==
    LET new_root == h[root].children[1]
        fresh == Malloc(Free(h, root), BtIds)
    IN  IF Overrun(h) THEN [h |-> h, root |-> root]
        ELSE IF num_keys(h, root) = 0 /\ ~h[root].is_leaf
        THEN IF new_root = NULL
             THEN [h |-> (fresh :> create_btree_node(TRUE)) @@ Free(h, root), root |-> fresh]
             ELSE [h |-> Free(h, root), root |-> new_root]
        ELSE [h |-> h, root |-> root]

\* delete_btree on a non-NULL handle: [h, root].
delete_btree(h, root, key, t) ==
    IF root = NULL \/ (num_keys(h, root) = 0 /\ h[root].is_leaf)
    THEN [h |-> h, root |-> root]
    ELSE btree_shrink_root(btree_delete_recursive(h, root, key, t), root)

\* The state no tree of a kind is in while the handle is of another kind.
AvlEmpty == avl_heap = <<>> /\ avl_root = NULL /\ avl_size = 0

RbEmpty ==
    /\ rb_heap = <<[data |-> 0, color |-> BLACK, parent |-> NIL,
                    left |-> NIL, right |-> NIL]>>
    /\ rb_root = NIL
    /\ rb_size = 0

BtNone == bt_t = 0 /\ bt_heap = <<>> /\ bt_root = NULL

RECURSIVE AvlPreorder(_, _)
AvlPreorder(h, n) ==
    IF n = NULL THEN <<>>
    ELSE <<n>> \o AvlPreorder(h, h[n].left) \o AvlPreorder(h, h[n].right)

\* The AVL heap and root with the cells named by the pre-order walk.
AvlCanon(h, root) ==
    LET pre   == AvlPreorder(h, root)
        order == pre \o Ascending((DOMAIN h) \ Range(pre))
        R(p)  == Renamed(order, {NULL}, p)
    IN  [h    |-> [i \in 1..Len(order) |->
                     [key    |-> h[order[i]].key,
                      left   |-> R(h[order[i]].left),
                      right  |-> R(h[order[i]].right),
                      height |-> h[order[i]].height]],
         root |-> R(root)]

\* insert_into_avl_tree(tree, key) on a non-NULL handle.
AvlInsert(key, ok) ==
    /\ handle = "avl"
    /\ LET r == insert_into_avl_tree(avl_heap, avl_root, avl_size, key, ok)
           c == AvlCanon(r.h, r.root)
       IN  /\ avl_heap' = c.h
           /\ avl_root' = c.root
           /\ avl_size' = r.size
           /\ last' = [op |-> "insert", key |-> key, ret |-> r.ret]
    /\ UNCHANGED <<handle, rb_vars, bt_vars>>

\* delete_from_avl_tree(tree, key) on a non-NULL handle.
AvlDelete(key) ==
    /\ handle = "avl"
    /\ LET r == delete_from_avl_tree(avl_heap, avl_root, avl_size, key)
           c == AvlCanon(r.h, r.root)
       IN  /\ avl_heap' = c.h
           /\ avl_root' = c.root
           /\ avl_size' = r.size
           /\ last' = [op |-> "delete", key |-> key, ret |-> r.ret]
    /\ UNCHANGED <<handle, rb_vars, bt_vars>>

\* create_avl_tree()
InitAVL ==
    /\ handle = "avl"
    /\ AvlEmpty
    /\ RbEmpty
    /\ BtNone
    /\ last = [op |-> "create", key |-> 0, ret |-> 0]

NextAVL ==
    \/ \E key \in AvlKeys : AvlInsert(key, TRUE)
    \/ \E key \in AvlKeys : AvlDelete(key)

SpecAVL == InitAVL /\ [][NextAVL]_vars

\* create_rbtree()
InitRB ==
    /\ handle = "rb"
    /\ RbEmpty
    /\ AvlEmpty
    /\ BtNone
    /\ last = [op |-> "create", key |-> 0, ret |-> 0]

NextRB ==
    \/ \E data \in RbKeys : RbInsert(data, TRUE)
    \/ \E data \in RbKeys : RbDelete(data)

SpecRB == InitRB /\ [][NextRB]_vars

\* The nodes a walk from the root reaches, in pre-order, each once.
RECURSIVE BtWalk(_, _, _)
BtWalk(h, stack, order) ==
    IF stack = <<>> THEN order
    ELSE IF Head(stack) \notin DOMAIN h \/ Head(stack) \in Range(order)
    THEN BtWalk(h, Tail(stack), order)
    ELSE BtWalk(h, h[Head(stack)].children \o Tail(stack), Append(order, Head(stack)))

BtNodes(h, root) == Range(BtWalk(h, <<root>>, <<>>))

\* The B-tree heap and root with the cells named by the pre-order walk.
BtCanon(h, root) ==
    LET pre   == BtWalk(h, <<root>>, <<>>)
        order == pre \o Ascending((DOMAIN h) \ Range(pre))
        R(p)  == Renamed(order, {NULL}, p)
    IN  [h    |-> [i \in 1..Len(order) |->
                     [keys     |-> h[order[i]].keys,
                      children |-> [j \in 1..Len(h[order[i]].children) |->
                                       R(h[order[i]].children[j])],
                      is_leaf  |-> h[order[i]].is_leaf]],
         root |-> R(root)]

\* The child slots of the nodes of the tree.
BtSlots(h, root) ==
    UNION {{<<p, j>> : j \in 1..Len(h[p].children)} : p \in BtNodes(h, root)}

\* Every child slot of the tree points to an allocated node.
BtAllocated(h, root) ==
    \A s \in BtSlots(h, root) : h[s[1]].children[s[2]] \in DOMAIN h

\* Every child slot of the tree points to an allocated node, and no two slots
\* to the same node.  destroy_btree_node_recursive and every descent rely on
\* it: a node in two slots is freed twice by destroy and merged with itself
\* by merge_children, a freed node in a slot is read after its free.  The
\* driver makes no further call on a handle that lost this.
BtOwned(h, root) ==
    /\ BtAllocated(h, root)
    /\ \A s1, s2 \in BtSlots(h, root) :
           h[s1[1]].children[s1[2]] = h[s2[1]].children[s2[2]] => s1 = s2

\* The number of keys the nodes of the tree hold.
BtCount(h, root) ==
    LET RECURSIVE Sum(_)
        Sum(S) == IF S = {} THEN 0
                  ELSE LET n == CHOOSE x \in S : TRUE
                       IN  num_keys(h, n) + Sum(S \ {n})
    IN  Sum(BtNodes(h, root))

\* insert_btree(tree, key) on a non-NULL handle.
BtInsert(key) ==
    /\ handle = "btree"
    /\ BtOwned(bt_heap, bt_root)
    /\ BtCount(bt_heap, bt_root) < BtMaxCount
    /\ LET r == insert_btree(bt_heap, bt_root, key, bt_t, <<>>, FALSE)
           c == BtCanon(r.h, r.root)
       IN  /\ bt_heap' = c.h
           /\ bt_root' = c.root
           /\ last' = [op |-> "insert", key |-> key, ret |-> 0]
    /\ UNCHANGED <<handle, avl_vars, rb_vars, bt_t>>

\* insert_btree(tree, key) by a caller that inserts a key only after
\* search_btree did not find it.
BtInsertNew(key) ==
    /\ handle = "btree"
    /\ BtOwned(bt_heap, bt_root)
    /\ ~search_btree(bt_heap, bt_root, key)
    /\ LET r == insert_btree(bt_heap, bt_root, key, bt_t, <<>>, FALSE)
           c == BtCanon(r.h, r.root)
       IN  /\ bt_heap' = c.h
           /\ bt_root' = c.root
           /\ last' = [op |-> "insert", key |-> key, ret |-> 0]
    /\ UNCHANGED <<handle, avl_vars, rb_vars, bt_t>>

\* delete_btree(tree, key) on a non-NULL handle.
BtDelete(key) ==
    /\ handle = "btree"
    /\ BtOwned(bt_heap, bt_root)
    /\ LET r == delete_btree(bt_heap, bt_root, key, bt_t)
           c == BtCanon(r.h, r.root)
       IN  IF Overrun(r.h)
           THEN /\ handle' = "killed"
                /\ UNCHANGED <<bt_heap, bt_root>>
           ELSE /\ bt_heap' = c.h
                /\ bt_root' = c.root
                /\ UNCHANGED handle
    /\ last' = [op |-> "delete", key |-> key, ret |-> 0]
    /\ UNCHANGED <<avl_vars, rb_vars, bt_t>>

\* create_btree(t)
InitBT ==
    /\ handle = "btree"
    /\ bt_t \in 2..BtMaxT
    /\ bt_heap = <<create_btree_node(TRUE)>>
    /\ bt_root = 1
    /\ AvlEmpty
    /\ RbEmpty
    /\ last = [op |-> "create", key |-> 0, ret |-> 0]

\* The driver that may insert a key the tree holds.
NextBT ==
    \/ \E key \in 1..BtDupMaxKey : BtInsert(key)
    \/ \E key \in 0..BtDupMaxKey : BtDelete(key)

SpecBT == InitBT /\ [][NextBT]_vars

\* The driver that inserts absent keys only.
NextBTSet ==
    \/ \E key \in 1..BtMaxKey : BtInsertNew(key)
    \/ \E key \in 0..BtMaxKey : BtDelete(key)

SpecBTSet == InitBT /\ [][NextBTSet]_vars

\* create_btree(2), then inserts of absent keys and deletes over a key range
\* that fills three levels.
InitBTDeep == InitBT /\ bt_t = 2

NextBTDeep ==
    \/ \E key \in 1..BtDeepMaxKey : BtInsertNew(key)
    \/ \E key \in 0..BtDeepMaxKey : BtDelete(key)

SpecBTDeep == InitBTDeep /\ [][NextBTDeep]_vars

\* create_btree(t), then inserts of pairwise distinct keys and nothing else.
NextBTIns == \E key \in 1..BtInsMaxKey : BtInsertNew(key)

SpecBTIns == InitBT /\ [][NextBTIns]_vars

\* The outcomes of up to BtMaxAllocs calls of create_btree_node of which the
\* last returns NULL, and the empty sequence: every call returns a node.
BtAllocs ==
    {a \in UNION {[1..n -> BOOLEAN] : n \in 0..BtMaxAllocs} : a = <<>> \/ ~a[Len(a)]}

\* insert_btree(tree, key) of a key search_btree does not find, with the
\* outcomes of its allocations and of its read of a slot that holds no key.
BtInsertAlloc(key, allocs, stale) ==
    /\ handle = "btree"
    /\ BtOwned(bt_heap, bt_root)
    /\ ~search_btree(bt_heap, bt_root, key)
    /\ LET r == insert_btree(bt_heap, bt_root, key, bt_t, allocs, stale)
           c == BtCanon(r.h, r.root)
       IN  IF Overrun(r.h)
           THEN /\ handle' = "killed"
                /\ UNCHANGED <<bt_heap, bt_root>>
           ELSE /\ bt_heap' = c.h
                /\ bt_root' = c.root
                /\ UNCHANGED handle
    /\ last' = [op |-> "insert", key |-> key, ret |-> 0]
    /\ UNCHANGED <<avl_vars, rb_vars, bt_t>>

\* The driver that inserts absent keys only and in which create_btree_node
\* may return NULL.
NextBTFail ==
    \/ \E key \in 1..BtFailMaxKey, allocs \in BtAllocs, stale \in BOOLEAN :
           BtInsertAlloc(key, allocs, stale)
    \/ \E key \in 0..BtFailMaxKey : BtDelete(key)

SpecBTFail == InitBT /\ [][NextBTFail]_vars

\* The driver of either self-balancing tree.
InitSB == InitAVL \/ InitRB

NextSB == NextAVL \/ NextRB

SpecSB == InitSB /\ [][NextSB]_vars

\* The driver of either self-balancing tree in which malloc may return NULL.
NextSBFail ==
    \/ \E key \in AvlKeys, ok \in BOOLEAN : AvlInsert(key, ok)
    \/ \E key \in AvlKeys : AvlDelete(key)
    \/ \E data \in RbKeys, ok \in BOOLEAN : RbInsert(data, ok)
    \/ \E data \in RbKeys : RbDelete(data)

SpecSBFail == InitSB /\ [][NextSBFail]_vars

\* -------------------------------------------------------------- destroy
\* The heap after free(cell) for each cell of `cells` in turn.  free of a
\* cell that is not allocated, a second free, leaves the DANGLING mark.
RECURSIVE FreeEach(_, _)
FreeEach(h, cells) ==
    IF cells = <<>> THEN h
    ELSE IF Head(cells) \notin DOMAIN h THEN (DANGLING :> h) @@ h
    ELSE FreeEach(Free(h, Head(cells)), Tail(cells))

\* The cells destroy_avl_nodes_recursive passes to free, in the order of its
\* calls.
RECURSIVE destroy_avl_nodes_recursive(_, _)
destroy_avl_nodes_recursive(h, node) ==
    IF node = NULL THEN <<>>
    ELSE (destroy_avl_nodes_recursive(h, h[node].left)
              \o destroy_avl_nodes_recursive(h, h[node].right)) \o <<node>>

\* destroy_avl_tree on a non-NULL handle: the cells freed and the heap left.
destroy_avl_tree(h, root) ==
    [freed |-> destroy_avl_nodes_recursive(h, root),
     h     |-> FreeEach(h, destroy_avl_nodes_recursive(h, root))]

RECURSIVE destroy_rbnodes_recursive(_, _)
destroy_rbnodes_recursive(T, node) ==
    IF node = NIL \/ node = NULL THEN <<>>
    ELSE (destroy_rbnodes_recursive(T, T.h[node].left)
              \o destroy_rbnodes_recursive(T, T.h[node].right)) \o <<node>>

\* destroy_rbtree without the free of tree->NIL.
destroy_rbtree_sentinel_kept(T) ==
    [freed |-> destroy_rbnodes_recursive(T, T.root),
     h     |-> FreeEach(T.h, destroy_rbnodes_recursive(T, T.root))]

\* destroy_rbtree on a non-NULL handle: the nodes, then tree->NIL.
destroy_rbtree(T) ==
    [freed |-> Append(destroy_rbnodes_recursive(T, T.root), NIL),
     h     |-> FreeEach(T.h, Append(destroy_rbnodes_recursive(T, T.root), NIL))]

\* destroy_avl_tree(tree): the handle is freed with the nodes.
AvlDestroy ==
    /\ handle = "avl"
    /\ handle' = "avl_destroyed"
    /\ avl_heap' = destroy_avl_tree(avl_heap, avl_root).h
    /\ avl_root' = NULL
    /\ avl_size' = 0
    /\ last' = [op |-> "destroy", key |-> 0, ret |-> 0]
    /\ UNCHANGED <<rb_vars, bt_vars>>

\* destroy_rbtree(tree)
RbDestroy ==
    /\ handle = "rb"
    /\ handle' = "rb_destroyed"
    /\ rb_heap' = destroy_rbtree(RbTree).h
    /\ rb_root' = NULL
    /\ rb_size' = 0
    /\ last' = [op |-> "destroy", key |-> 0, ret |-> 0]
    /\ UNCHANGED <<avl_vars, bt_vars>>

\* The driver of either self-balancing tree up to its destruction.
NextSBDestroy ==
    \/ NextSB
    \/ AvlDestroy
    \/ RbDestroy

SpecSBDestroy == InitSB /\ [][NextSBDestroy]_vars

\* The nodes destroy_btree_node_recursive frees, in the order of its calls:
\* the children in slots 0..num_keys, then the node.  A slot that points to
\* a freed node has the node freed again.
RECURSIVE destroy_btree_node_recursive(_, _)
destroy_btree_node_recursive(h, node) ==
    LET RECURSIVE Children(_)
        Children(i) ==
            IF i > num_keys(h, node) THEN <<>>
            ELSE destroy_btree_node_recursive(h,
                     IF i + 1 <= Len(h[node].children) THEN h[node].children[i + 1]
                     ELSE NULL) \o Children(i + 1)
    IN  IF node = NULL THEN <<>>
        ELSE IF node \notin DOMAIN h THEN <<node>>
        ELSE IF h[node].is_leaf THEN <<node>>
        ELSE Append(Children(0), node)

\* destroy_btree on a non-NULL handle: the nodes freed.
destroy_btree(h, root) ==
    IF root = NULL THEN <<>> ELSE destroy_btree_node_recursive(h, root)

\* ---------------------------------------------------------- NULL handle
\* What each mutating operation returns when its tree argument is NULL: the
\* test each makes first.
insert_into_avl_tree_null(key) == -1

delete_from_avl_tree_null(key) == 1

insert_rbnode_null(data) == -1

delete_rbnode_null(data) == -1

\* create_avl_tree() or create_rbtree() whose malloc failed: the caller
\* holds NULL, and no tree exists.
InitNull ==
    /\ handle \in {"avl_null", "rb_null"}
    /\ AvlEmpty
    /\ RbEmpty
    /\ BtNone
    /\ last = [op |-> "create", key |-> 0, ret |-> 0]

\* insert_into_avl_tree(NULL, key) and insert_rbnode(NULL, data)
NullInsert(key) ==
    /\ handle \in {"avl_null", "rb_null"}
    /\ last' = [op |-> "insert", key |-> key,
                ret |-> IF handle = "avl_null" THEN insert_into_avl_tree_null(key)
                        ELSE insert_rbnode_null(key)]
    /\ UNCHANGED <<handle, avl_vars, rb_vars, bt_vars>>

\* delete_from_avl_tree(NULL, key) and delete_rbnode(NULL, data)
NullDelete(key) ==
    /\ handle \in {"avl_null", "rb_null"}
    /\ last' = [op |-> "delete", key |-> key,
                ret |-> IF handle = "avl_null" THEN delete_from_avl_tree_null(key)
                        ELSE delete_rbnode_null(key)]
    /\ UNCHANGED <<handle, avl_vars, rb_vars, bt_vars>>

\* The driver of either self-balancing tree whose creation may have failed.
InitSBNull == InitSB \/ InitNull

NextSBNull ==
    \/ NextSB
    \/ \E key \in RbKeys : NullInsert(key)
    \/ \E key \in RbKeys : NullDelete(key)

SpecSBNull == InitSBNull /\ [][NextSBNull]_vars

\* ================================================================ claims

\* ------------------------------------------------------------- AVL tree
AvlNodes(h, root) == Range(AvlPreorder(h, root))

RECURSIVE AvlSubtreeKeys(_, _)
AvlSubtreeKeys(h, n) ==
    IF n = NULL THEN {}
    ELSE {h[n].key} \cup AvlSubtreeKeys(h, h[n].left) \cup AvlSubtreeKeys(h, h[n].right)

\* The height of the subtree at n, counted on the links: -1 for an absent child.
RECURSIVE AvlHeight(_, _)
AvlHeight(h, n) ==
    IF n = NULL THEN -1
    ELSE 1 + max_int_internal(AvlHeight(h, h[n].left), AvlHeight(h, h[n].right))

AvlStored(h, root, k) == search_in_avl_tree(h, root, k) # NULL

\* C1: after every insert_into_avl_tree or delete_from_avl_tree in a sequence
\* of operations from the empty tree, at every node (a) the keys of the left
\* subtree are smaller and the keys of the right subtree larger than its key,
\* (b) the stored height is 1 + max of the heights of its subtrees, -1 for an
\* absent child, (c) the heights of its subtrees differ by at most 1.
C1_AvlInvariants ==
    handle = "avl" =>
        \A n \in AvlNodes(avl_heap, avl_root) :
            /\ \A k \in AvlSubtreeKeys(avl_heap, avl_heap[n].left) : k < avl_heap[n].key
            /\ \A k \in AvlSubtreeKeys(avl_heap, avl_heap[n].right) : k > avl_heap[n].key
            /\ avl_heap[n].height = AvlHeight(avl_heap, n)
            /\ AvlHeight(avl_heap, avl_heap[n].left) - AvlHeight(avl_heap, avl_heap[n].right)
                   \in {-1, 0, 1}

\* A delete succeeded and left a tree of height 2 with four keys or more.
C1_Witness ==
    /\ handle = "avl"
    /\ last.op = "delete" /\ last.ret = 0
    /\ avl_size >= 4
    /\ AvlHeight(avl_heap, avl_root) = 2

\* --------------------------------------------------------- red-black tree
RbNodes(h, root) == Range(RbPreorder(h, root))

RECURSIVE RbInorder(_, _)
RbInorder(h, n) ==
    IF n = NIL THEN <<>>
    ELSE (RbInorder(h, h[n].left) \o <<h[n].data>>) \o RbInorder(h, h[n].right)

\* The numbers of BLACK nodes on the paths from n down to the sentinel.
RECURSIVE RbBlackCounts(_, _)
RbBlackCounts(h, n) ==
    IF n = NIL THEN {0}
    ELSE {c + (IF h[n].color = BLACK THEN 1 ELSE 0) :
             c \in RbBlackCounts(h, h[n].left) \cup RbBlackCounts(h, h[n].right)}

RbStored(T, k) == search_rbnode(T, k) # NIL

\* C2: after every insert_rbnode or delete_rbnode in a sequence of operations
\* from the empty tree, the in-order key sequence is strictly increasing, the
\* root is BLACK, no RED node has a RED child, and every path from the root
\* to the sentinel holds the same number of BLACK nodes.
C2_RbInvariants ==
    handle = "rb" =>
        /\ \A i \in 1..(Len(RbInorder(rb_heap, rb_root)) - 1) :
               RbInorder(rb_heap, rb_root)[i] < RbInorder(rb_heap, rb_root)[i + 1]
        /\ rb_heap[rb_root].color = BLACK
        /\ \A n \in RbNodes(rb_heap, rb_root) :
               rb_heap[n].color = RED =>
                   /\ rb_heap[rb_heap[n].left].color = BLACK
                   /\ rb_heap[rb_heap[n].right].color = BLACK
        /\ Cardinality(RbBlackCounts(rb_heap, rb_root)) = 1

\* A delete succeeded and left four keys or more, a RED node among them.
C2_Witness ==
    /\ handle = "rb"
    /\ last.op = "delete" /\ last.ret = 0
    /\ rb_size >= 4
    /\ \E n \in RbNodes(rb_heap, rb_root) : rb_heap[n].color = RED

\* -------------------------------------------- AVL and red-black: size, set
\* C4: after every operation the size field is the number of nodes reachable
\* from root; from every reachable tree and for every key an insert that
\* returns 0 raises size by 1, a delete that returns 0 lowers it by 1, and
\* every other outcome (1, or -1 when malloc fails) leaves it as it was.
C4_SizeCountsNodes ==
    /\ handle = "avl" =>
        /\ avl_size = Len(AvlPreorder(avl_heap, avl_root))
        /\ \A key \in AvlKeys :
               /\ \A ok \in BOOLEAN :
                      insert_into_avl_tree(avl_heap, avl_root, avl_size, key, ok).size
                          = IF insert_into_avl_tree(avl_heap, avl_root, avl_size, key, ok).ret = 0
                            THEN avl_size + 1 ELSE avl_size
               /\ delete_from_avl_tree(avl_heap, avl_root, avl_size, key).size
                      = IF delete_from_avl_tree(avl_heap, avl_root, avl_size, key).ret = 0
                        THEN avl_size - 1 ELSE avl_size
    /\ handle = "rb" =>
        /\ rb_size = Len(RbPreorder(rb_heap, rb_root))
        /\ \A data \in RbKeys :
               /\ \A ok \in BOOLEAN :
                      insert_rbnode(RbTree, rb_size, data, ok).size
                          = IF insert_rbnode(RbTree, rb_size, data, ok).ret = 0
                            THEN rb_size + 1 ELSE rb_size
               /\ delete_rbnode(RbTree, rb_size, data).size
                      = IF delete_rbnode(RbTree, rb_size, data).ret = 0
                        THEN rb_size - 1 ELSE rb_size

\* A delete succeeded on the AVL tree and left a node with two children.
C4_Witness ==
    /\ handle = "avl"
    /\ last.op = "delete" /\ last.ret = 0
    /\ avl_size = Len(AvlPreorder(avl_heap, avl_root))
    /\ \E n \in AvlNodes(avl_heap, avl_root) :
           avl_heap[n].left # NULL /\ avl_heap[n].right # NULL

\* C5: either tree is a set of integers.  From every reachable tree and for
\* every key k: search returns a node that holds k, or for an absent key
\* NULL (AVL) and the sentinel, an allocated cell and never NULL (red-black);
\* insert returns 0 iff search did not find k, delete returns 0 iff it did;
\* after insert the keys search finds are the ones found before and k, after
\* delete the ones found before without k; a created tree holds no key.
C5_SetOfIntegers ==
    /\ handle = "avl" =>
        \A k \in AvlKeys :
            /\ AvlStored(avl_heap, avl_root, k) =>
                   avl_heap[search_in_avl_tree(avl_heap, avl_root, k)].key = k
            /\ last.op = "create" => search_in_avl_tree(avl_heap, avl_root, k) = NULL
            /\ insert_into_avl_tree(avl_heap, avl_root, avl_size, k, TRUE).ret
                   = IF AvlStored(avl_heap, avl_root, k) THEN 1 ELSE 0
            /\ delete_from_avl_tree(avl_heap, avl_root, avl_size, k).ret
                   = IF AvlStored(avl_heap, avl_root, k) THEN 0 ELSE 1
            /\ \A j \in AvlKeys :
                   /\ AvlStored(insert_into_avl_tree(avl_heap, avl_root, avl_size, k, TRUE).h,
                                insert_into_avl_tree(avl_heap, avl_root, avl_size, k, TRUE).root, j)
                          <=> (j = k \/ AvlStored(avl_heap, avl_root, j))
                   /\ AvlStored(delete_from_avl_tree(avl_heap, avl_root, avl_size, k).h,
                                delete_from_avl_tree(avl_heap, avl_root, avl_size, k).root, j)
                          <=> (j # k /\ AvlStored(avl_heap, avl_root, j))
    /\ handle = "rb" =>
        \A k \in RbKeys :
            /\ search_rbnode(RbTree, k) # NULL
            /\ search_rbnode(RbTree, k) \in DOMAIN rb_heap
            /\ RbStored(RbTree, k) => rb_heap[search_rbnode(RbTree, k)].data = k
            /\ last.op = "create" => search_rbnode(RbTree, k) = NIL
            /\ insert_rbnode(RbTree, rb_size, k, TRUE).ret
                   = IF RbStored(RbTree, k) THEN 1 ELSE 0
            /\ delete_rbnode(RbTree, rb_size, k).ret
                   = IF RbStored(RbTree, k) THEN 0 ELSE 1
            /\ \A j \in RbKeys :
                   /\ RbStored(insert_rbnode(RbTree, rb_size, k, TRUE).T, j)
                          <=> (j = k \/ RbStored(RbTree, j))
                   /\ RbStored(delete_rbnode(RbTree, rb_size, k).T, j)
                          <=> (j # k /\ RbStored(RbTree, j))

\* An insert into the red-black tree returned 0, search finds its key, and
\* search returns the sentinel for a key that was deleted or never inserted.
C5_Witness ==
    /\ handle = "rb"
    /\ last.op = "insert" /\ last.ret = 0
    /\ rb_size >= 3
    /\ rb_heap[search_rbnode(RbTree, last.key)].data = last.key
    /\ \E k \in RbKeys : search_rbnode(RbTree, k) = NIL

C9_AbsentDeleteUnchanged ==
    /\ handle = "avl" =>
        \A k \in AvlKeys :
            ~AvlStored(avl_heap, avl_root, k) =>
                delete_from_avl_tree(avl_heap, avl_root, avl_size, k)
                    = [h |-> avl_heap, root |-> avl_root, size |-> avl_size, ret |-> 1]
    /\ handle = "rb" =>
        \A k \in RbKeys :
            ~RbStored(RbTree, k) =>
                delete_rbnode(RbTree, rb_size, k)
                    = [T |-> RbTree, size |-> rb_size, ret |-> 1]

\* delete_from_avl_tree(tree, 0) returned 1 on the empty tree, where the
\* test of line 294 does not return early.
C9_Witness ==
    /\ handle = "avl"
    /\ last = [op |-> "delete", key |-> 0, ret |-> 1]
    /\ avl_root = NULL /\ avl_size = 0

\* ---------------------------------------------------------------- B-tree
BtStored(k) == search_btree(bt_heap, bt_root, k)

\* The keys of the nodes of the subtree at n.
RECURSIVE BtSubtreeKeys(_, _)
BtSubtreeKeys(h, n) ==
    IF n \notin DOMAIN h THEN {}
    ELSE Range(h[n].keys)
         \cup UNION {BtSubtreeKeys(h, h[n].children[i]) : i \in 1..Len(h[n].children)}

\* The depths, counted from n, of the leaves of the subtree at n.
RECURSIVE BtLeafDepths(_, _)
BtLeafDepths(h, n) ==
    IF n \notin DOMAIN h THEN {}
    ELSE IF h[n].is_leaf THEN {0}
    ELSE {d + 1 : d \in UNION {BtLeafDepths(h, h[n].children[i]) :
                                  i \in 1..Len(h[n].children)}}

\* C3: after every insert_btree or delete_btree every non-root node has
\* between t-1 and 2t-1 keys; the root has at most 2t-1 keys, none only when
\* it is a leaf; the keys of a node are strictly increasing; the keys under
\* children[i] lie strictly between keys[i-1] and keys[i]; an internal node
\* has num_keys+1 non-null children; all leaves are at one depth.
C3_BtreeInvariants ==
    handle = "btree" =>
        /\ \A n \in BtNodes(bt_heap, bt_root) \ {bt_root} :
               /\ num_keys(bt_heap, n) >= bt_t - 1
               /\ num_keys(bt_heap, n) <= 2 * bt_t - 1
        /\ num_keys(bt_heap, bt_root) <= 2 * bt_t - 1
        /\ num_keys(bt_heap, bt_root) = 0 => bt_heap[bt_root].is_leaf
        /\ \A n \in BtNodes(bt_heap, bt_root) :
               /\ \A i \in 1..(num_keys(bt_heap, n) - 1) :
                      bt_heap[n].keys[i] < bt_heap[n].keys[i + 1]
               /\ ~bt_heap[n].is_leaf =>
                      /\ Len(bt_heap[n].children) = num_keys(bt_heap, n) + 1
                      /\ \A i \in 1..Len(bt_heap[n].children) :
                             /\ bt_heap[n].children[i] \in DOMAIN bt_heap
                             /\ \A k \in BtSubtreeKeys(bt_heap, bt_heap[n].children[i]) :
                                    /\ i > 1 => bt_heap[n].keys[i - 1] < k
                                    /\ i <= num_keys(bt_heap, n) => k < bt_heap[n].keys[i]
        /\ Cardinality(BtLeafDepths(bt_heap, bt_root)) = 1

\* C6: from every reachable tree, delete_btree(k) of a stored key k returns,
\* leaves a tree whose child slots point to allocated nodes, and afterwards
\* search_btree(k) is false and search_btree(j) is true for every other key
\* j that was stored.
C6_DeleteRemovesExactlyThatKey ==
    (handle = "btree" /\ BtOwned(bt_heap, bt_root)) =>
        \A k \in 1..BtMaxKey :
            BtStored(k) =>
                /\ ~Overrun(delete_btree(bt_heap, bt_root, k, bt_t).h)
                /\ BtAllocated(delete_btree(bt_heap, bt_root, k, bt_t).h,
                               delete_btree(bt_heap, bt_root, k, bt_t).root)
                /\ ~search_btree(delete_btree(bt_heap, bt_root, k, bt_t).h,
                                 delete_btree(bt_heap, bt_root, k, bt_t).root, k)
                /\ \A j \in 1..BtMaxKey :
                       (j # k /\ BtStored(j)) =>
                           search_btree(delete_btree(bt_heap, bt_root, k, bt_t).h,
                                        delete_btree(bt_heap, bt_root, k, bt_t).root, j)

\* C8: no reachable tree holds a key twice, and from every reachable tree
\* insert_btree of a stored key leaves the heap and the root as they were.
C8_DuplicateInsertNoOp ==
    handle = "btree" =>
        /\ BtCount(bt_heap, bt_root) = Cardinality(BtSubtreeKeys(bt_heap, bt_root))
        /\ \A k \in 1..BtDupMaxKey :
               BtStored(k) =>
                   insert_btree(bt_heap, bt_root, k, bt_t, <<>>, FALSE)
                       = [h |-> bt_heap, root |-> bt_root]

\* Every node below the root on the descent of delete_btree for key holds t
\* keys or more, so that line 486 never calls fill_child_if_needed.
RECURSIVE BtPathRoomy(_, _, _, _)
BtPathRoomy(h, node, key, t) ==
    \/ h[node].is_leaf
    \/ /\ num_keys(h, h[node].children[find_key_index(h, node, key) + 1]) >= t
       /\ BtPathRoomy(h, h[node].children[find_key_index(h, node, key) + 1], key, t)

\* C10 as stated: from every reachable tree, delete_btree of a key that is
\* not stored leaves the heap and the root as they were.
C10_AbsentDeleteUnchanged ==
    (handle = "btree" /\ BtOwned(bt_heap, bt_root)) =>
        \A k \in 0..BtMaxKey :
            ~BtStored(k) =>
                delete_btree(bt_heap, bt_root, k, bt_t) = [h |-> bt_heap, root |-> bt_root]

\* C10, amended: from every reachable tree, delete_btree of a key that is not
\* stored leaves the heap and the root as they were exactly when every node
\* below the root on the key's descent holds t keys or more (so always when
\* the root is a leaf); when a node on the descent holds t-1 keys the call
\* borrows or merges on the way down and the tree is not as it was.
C10_AbsentDeleteUnchangedIffRoomy ==
    (handle = "btree" /\ BtOwned(bt_heap, bt_root)) =>
        \A k \in 0..BtMaxKey :
            ~BtStored(k) =>
                ((delete_btree(bt_heap, bt_root, k, bt_t) = [h |-> bt_heap, root |-> bt_root])
                     <=> BtPathRoomy(bt_heap, bt_root, k, bt_t))

\* delete_btree of a key that is not stored was the last call, on a tree with
\* an internal root whose nodes on the descent hold t keys or more.
C10_Witness ==
    /\ handle = "btree"
    /\ BtOwned(bt_heap, bt_root)
    /\ last.op = "delete"
    /\ ~BtStored(last.key)
    /\ ~bt_heap[bt_root].is_leaf
    /\ BtPathRoomy(bt_heap, bt_root, last.key, bt_t)
    /\ delete_btree(bt_heap, bt_root, last.key, bt_t) = [h |-> bt_heap, root |-> bt_root]

\* ------------------------------------------------------------ round trip
\* The keys among 1..BtMaxKey that search_btree finds.
BtStoredKeys(h, root) == {k \in 1..BtMaxKey : search_btree(h, root, k)}

\* C11: round trip, by induction over the deletes.  In every reachable tree
\* (the trees N inserts of distinct keys build are among them, and so is
\* every tree a delete leaves behind), the delete of any stored key returns,
\* removes that key and no other and lowers the number of stored keys by
\* one; and a tree in which no key is stored is in the empty state: AVL root
\* NULL, size 0 and no cell allocated; red-black root the sentinel, size 0
\* and only the sentinel allocated; B-tree root a leaf with no keys and no
\* other node allocated.  So deleting all stored keys, in any order, ends in
\* the empty state.
C11_RoundTrip ==
    /\ handle = "avl" =>
        /\ (\A k \in AvlKeys : ~AvlStored(avl_heap, avl_root, k)) =>
               (avl_root = NULL /\ avl_size = 0 /\ DOMAIN avl_heap = {})
        /\ \A k \in AvlKeys :
               AvlStored(avl_heap, avl_root, k) =>
                   /\ delete_from_avl_tree(avl_heap, avl_root, avl_size, k).ret = 0
                   /\ delete_from_avl_tree(avl_heap, avl_root, avl_size, k).size = avl_size - 1
                   /\ \A j \in AvlKeys :
                          AvlStored(delete_from_avl_tree(avl_heap, avl_root, avl_size, k).h,
                                    delete_from_avl_tree(avl_heap, avl_root, avl_size, k).root, j)
                              <=> (j # k /\ AvlStored(avl_heap, avl_root, j))
    /\ handle = "rb" =>
        /\ (\A k \in RbKeys : ~RbStored(RbTree, k)) =>
               (rb_root = NIL /\ rb_size = 0 /\ DOMAIN rb_heap = {NIL})
        /\ \A k \in RbKeys :
               RbStored(RbTree, k) =>
                   /\ delete_rbnode(RbTree, rb_size, k).ret = 0
                   /\ delete_rbnode(RbTree, rb_size, k).size = rb_size - 1
                   /\ \A j \in RbKeys :
                          RbStored(delete_rbnode(RbTree, rb_size, k).T, j)
                              <=> (j # k /\ RbStored(RbTree, j))
    /\ (handle = "btree" /\ BtOwned(bt_heap, bt_root)) =>
        /\ BtStoredKeys(bt_heap, bt_root) = {} =>
               /\ bt_heap[bt_root].is_leaf
               /\ num_keys(bt_heap, bt_root) = 0
               /\ DOMAIN bt_heap = {bt_root}
        /\ \A k \in BtStoredKeys(bt_heap, bt_root) :
               /\ ~Overrun(delete_btree(bt_heap, bt_root, k, bt_t).h)
               /\ BtOwned(delete_btree(bt_heap, bt_root, k, bt_t).h,
                          delete_btree(bt_heap, bt_root, k, bt_t).root)
               /\ BtStoredKeys(delete_btree(bt_heap, bt_root, k, bt_t).h,
                               delete_btree(bt_heap, bt_root, k, bt_t).root)
                      = BtStoredKeys(bt_heap, bt_root) \ {k}

C13_FailedInsertAborts ==
    (handle = "btree" /\ BtOwned(bt_heap, bt_root)) =>
        \A k \in 1..BtFailMaxKey, allocs \in BtAllocs, stale \in BOOLEAN :
            ~BtStored(k) =>
                \/ insert_btree(bt_heap, bt_root, k, bt_t, allocs, stale)
                       = [h |-> bt_heap, root |-> bt_root]
                \/ insert_btree(bt_heap, bt_root, k, bt_t, allocs, stale)
                       = insert_btree(bt_heap, bt_root, k, bt_t, <<>>, FALSE)

\* ----------------------------------------------------------- NULL handle
\* C14: a mutating operation called with a NULL handle returns a status that
\* is neither its success status 0 nor its logical-miss status 1, and
\* touches no tree.
C14_NullHandleRejected ==
    handle \in {"avl_null", "rb_null"} =>
        /\ last.op \in {"insert", "delete"} => last.ret \notin {0, 1}
        /\ AvlEmpty /\ RbEmpty /\ BtNone

\* ------------------------------------------------------ memory ownership
\* C15: between operations the allocated cells are the nodes reachable from
\* the root (and the sentinel); a delete frees one allocated node when it
\* returns 0 and none otherwise, an insert allocates one node when it
\* returns 0 and leaves none allocated otherwise; destroy frees each
\* allocated cell once, the sentinel last and once, no cell twice, and
\* leaves no cell allocated.
C15_NodesFreedOnce ==
    /\ handle = "avl" =>
        /\ DOMAIN avl_heap = AvlNodes(avl_heap, avl_root)
        /\ Range(destroy_avl_tree(avl_heap, avl_root).freed) = DOMAIN avl_heap
        /\ Len(destroy_avl_tree(avl_heap, avl_root).freed) = Cardinality(DOMAIN avl_heap)
        /\ DOMAIN destroy_avl_tree(avl_heap, avl_root).h = {}
        /\ \A k \in AvlKeys :
               /\ DOMAIN delete_from_avl_tree(avl_heap, avl_root, avl_size, k).h
                      \subseteq DOMAIN avl_heap
               /\ Cardinality(DOMAIN avl_heap
                      \ DOMAIN delete_from_avl_tree(avl_heap, avl_root, avl_size, k).h)
                      = IF delete_from_avl_tree(avl_heap, avl_root, avl_size, k).ret = 0
                        THEN 1 ELSE 0
               /\ \A ok \in BOOLEAN :
                      /\ DOMAIN avl_heap \subseteq
                             DOMAIN insert_into_avl_tree(avl_heap, avl_root, avl_size, k, ok).h
                      /\ Cardinality(
                             DOMAIN insert_into_avl_tree(avl_heap, avl_root, avl_size, k, ok).h
                                 \ DOMAIN avl_heap)
                             = IF insert_into_avl_tree(avl_heap, avl_root, avl_size, k, ok).ret = 0
                               THEN 1 ELSE 0
    /\ handle = "rb" =>
        /\ DOMAIN rb_heap = RbNodes(rb_heap, rb_root) \cup {NIL}
        /\ NIL \notin RbNodes(rb_heap, rb_root)
        /\ Range(destroy_rbtree(RbTree).freed) = DOMAIN rb_heap
        /\ Len(destroy_rbtree(RbTree).freed) = Cardinality(DOMAIN rb_heap)
        /\ destroy_rbtree(RbTree).freed[Len(destroy_rbtree(RbTree).freed)] = NIL
        /\ DOMAIN destroy_rbtree(RbTree).h = {}
        /\ \A k \in RbKeys :
               /\ NIL \in DOMAIN delete_rbnode(RbTree, rb_size, k).T.h
               /\ DOMAIN delete_rbnode(RbTree, rb_size, k).T.h \subseteq DOMAIN rb_heap
               /\ Cardinality(DOMAIN rb_heap \ DOMAIN delete_rbnode(RbTree, rb_size, k).T.h)
                      = IF delete_rbnode(RbTree, rb_size, k).ret = 0 THEN 1 ELSE 0
               /\ \A ok \in BOOLEAN :
                      /\ DOMAIN rb_heap \subseteq DOMAIN insert_rbnode(RbTree, rb_size, k, ok).T.h
                      /\ Cardinality(DOMAIN insert_rbnode(RbTree, rb_size, k, ok).T.h
                                         \ DOMAIN rb_heap)
                             = IF insert_rbnode(RbTree, rb_size, k, ok).ret = 0 THEN 1 ELSE 0
    /\ handle = "avl_destroyed" => DOMAIN avl_heap = {}
    /\ handle = "rb_destroyed" => DOMAIN rb_heap = {}

\* The delete engine freed a node of a red-black tree that still holds three
\* keys or more, and destroy_rbtree of this tree frees its nodes and the
\* sentinel.
C15_Witness ==
    /\ handle = "rb"
    /\ last.op = "delete" /\ last.ret = 0
    /\ rb_size >= 3
    /\ Len(destroy_rbtree(RbTree).freed) = rb_size + 1

\* C16: after every insert_btree or delete_btree every allocated node is the
\* root or sits in one child slot of a node of the tree, no node sits in two
\* slots and none outside the tree, and destroy_btree frees every allocated
\* node once.
C16_BtreeNodesOwnedOnce ==
    handle = "btree" =>
        /\ BtOwned(bt_heap, bt_root)
        /\ DOMAIN bt_heap = BtNodes(bt_heap, bt_root)
        /\ \A s \in BtSlots(bt_heap, bt_root) : bt_heap[s[1]].children[s[2]] # bt_root
        /\ Range(destroy_btree(bt_heap, bt_root)) = DOMAIN bt_heap
        /\ Len(destroy_btree(bt_heap, bt_root)) = Cardinality(DOMAIN bt_heap)

\* -------------------------------------------------------- the sentinel
\* C17: the sentinel is BLACK in every reachable state, and for every key,
\* in every state in which the loop test of rb_insert_fixup or of
\* rb_delete_fixup is evaluated during the insert or the delete of that key;
\* no pass of either loop assigns RED to the sentinel; and it is BLACK when
\* the call returns.
C17_SentinelBlack ==
    handle = "rb" =>
        /\ rb_heap[NIL].color = BLACK
        /\ \A k \in RbKeys :
               /\ insert_rbnode(RbTree, rb_size, k, TRUE).T.h[NIL].color = BLACK
               /\ delete_rbnode(RbTree, rb_size, k).T.h[NIL].color = BLACK
               /\ ~RbStored(RbTree, k) =>
                      \A i \in 1..Len(rb_insert_fixup_passes(rb_insert_fixup_entry(RbTree, k))) :
                          /\ rb_insert_fixup_passes(rb_insert_fixup_entry(RbTree, k))[i]
                                 .T.h[NIL].color = BLACK
                          /\ rb_insert_fixup_test(
                                 rb_insert_fixup_passes(rb_insert_fixup_entry(RbTree, k))[i]) =>
                                 NIL \notin rb_insert_fixup_reds(
                                     rb_insert_fixup_passes(rb_insert_fixup_entry(RbTree, k))[i].T,
                                     rb_insert_fixup_passes(rb_insert_fixup_entry(RbTree, k))[i].z)
               /\ RbStored(RbTree, k) =>
                      \A i \in 1..Len(rb_delete_finish_passes(
                                          rb_delete_unlink(RbTree, search_rbnode(RbTree, k)),
                                          search_rbnode(RbTree, k))) :
                          /\ rb_delete_finish_passes(
                                 rb_delete_unlink(RbTree, search_rbnode(RbTree, k)),
                                 search_rbnode(RbTree, k))[i].T.h[NIL].color = BLACK
                          /\ rb_delete_fixup_test(rb_delete_finish_passes(
                                 rb_delete_unlink(RbTree, search_rbnode(RbTree, k)),
                                 search_rbnode(RbTree, k))[i]) =>
                                 NIL \notin rb_delete_fixup_reds(
                                     rb_delete_finish_passes(
                                         rb_delete_unlink(RbTree, search_rbnode(RbTree, k)),
                                         search_rbnode(RbTree, k))[i].T,
                                     rb_delete_finish_passes(
                                         rb_delete_unlink(RbTree, search_rbnode(RbTree, k)),
                                         search_rbnode(RbTree, k))[i].x)

\* A delete was the last call, and a delete of a key of this tree runs the
\* loop of rb_delete_fixup with the sentinel as its first x.
C17_Witness ==
    /\ handle = "rb"
    /\ last.op = "delete" /\ last.ret = 0
    /\ \E k \in RbKeys :
           /\ RbStored(RbTree, k)
           /\ Len(rb_delete_finish_passes(
                      rb_delete_unlink(RbTree, search_rbnode(RbTree, k)),
                      search_rbnode(RbTree, k))) >= 2
           /\ rb_delete_unlink(RbTree, search_rbnode(RbTree, k)).x = NIL

\* C18: after every completed insert or delete the fields parent, left and
\* right of the sentinel all refer to the sentinel itself.
C18_SentinelSelfReferential ==
    (handle = "rb" /\ last.op \in {"insert", "delete"}) =>
        /\ rb_heap[NIL].parent = NIL
        /\ rb_heap[NIL].left = NIL
        /\ rb_heap[NIL].right = NIL

\* ---------------------------------------------------- three keys, AVL
\* insert_into_avl_tree called for keys[1], keys[2], ... in this order on the
\* tree [h, root, size]: the tree after the last call and the values returned.
RECURSIVE AvlInsertAll(_, _, _, _)
AvlInsertAll(h, root, size, keys) ==
    IF keys = <<>>
    THEN [h |-> h, root |-> root, size |-> size, rets |-> <<>>]
    ELSE LET r    == insert_into_avl_tree(h, root, size, Head(keys), TRUE)
             rest == AvlInsertAll(r.h, r.root, r.size, Tail(keys))
         IN  [rest EXCEPT !.rets = <<r.ret>> \o rest.rets]

\* C19: whenever the AVL tree is empty, inserting three distinct keys
\* a < b < c in any of the six orders returns 0 each time and gives the tree
\* with b at the root, a its left child, c its right child, both leaves, root
\* height 1 and size 3.
C19_ThreeKeysBalanced ==
    (handle = "avl" /\ avl_size = 0) =>
        \A a \in AvlKeys, b \in AvlKeys, c \in AvlKeys :
            (a < b /\ b < c) =>
                \A keys \in {<<a, b, c>>, <<a, c, b>>, <<b, a, c>>,
                             <<b, c, a>>, <<c, a, b>>, <<c, b, a>>} :
                    /\ AvlInsertAll(avl_heap, avl_root, avl_size, keys).rets = <<0, 0, 0>>
                    /\ AvlInsertAll(avl_heap, avl_root, avl_size, keys).size = 3
                    /\ AvlInsertAll(avl_heap, avl_root, avl_size, keys).root # NULL
                    /\ LET r    == AvlInsertAll(avl_heap, avl_root, avl_size, keys)
                           node == r.h[r.root]
                       IN  /\ DOMAIN r.h = {r.root, node.left, node.right}
                           /\ node.left # NULL /\ node.right # NULL
                           /\ node.key = b /\ node.height = 1
                           /\ r.h[node.left].key = a
                           /\ r.h[node.left].left = NULL /\ r.h[node.left].right = NULL
                           /\ r.h[node.left].height = 0
                           /\ r.h[node.right].key = c
                           /\ r.h[node.right].left = NULL /\ r.h[node.right].right = NULL
                           /\ r.h[node.right].height = 0

\* An insert has just returned 0 on a tree that now holds three keys, and
\* its key, the middle one, is at the root with a leaf on either side.
C19_Witness ==
    /\ handle = "avl"
    /\ last.op = "insert" /\ last.ret = 0
    /\ avl_size = 3
    /\ avl_heap[avl_root].key = last.key
    /\ avl_heap[avl_root].height = 1
    /\ avl_heap[avl_root].left # NULL /\ avl_heap[avl_root].right # NULL
    /\ avl_heap[avl_heap[avl_root].left].key < last.key
    /\ avl_heap[avl_heap[avl_root].right].key > last.key

\* ------------------------------------------------------ B-tree split
\* btree_split_child on the child at index i of parent p does what the
\* specification says: the key at index t-1 of the child is parent.keys[i],
\* the old child keeps its first t-1 keys and (when internal) first t
\* children, the new node at parent.children[i+1] holds the last t-1 keys
\* and last t children, the parent's keys and children from there on move
\* right by one, and nothing else changes.
SplitAsSpecified(h, p, i, t) ==
    LET c  == h[p].children[i + 1]
        h2 == btree_split_child(h, p, i, c, t, TRUE)
        s  == h2[p].children[i + 2]
    IN  /\ DOMAIN h2 = DOMAIN h \cup {s} /\ s \notin DOMAIN h
        /\ \A n \in DOMAIN h \ {p, c} : h2[n] = h[n]
        /\ h2[p].is_leaf = h[p].is_leaf
        /\ Len(h2[p].keys) = Len(h[p].keys) + 1
        /\ Len(h2[p].children) = Len(h[p].children) + 1
        /\ h2[p].keys[i + 1] = h[c].keys[t]
        /\ h2[p].children[i + 1] = c
        /\ \A j \in 1..Len(h[p].keys) :
               h2[p].keys[IF j <= i THEN j ELSE j + 1] = h[p].keys[j]
        /\ \A j \in 1..Len(h[p].children) :
               h2[p].children[IF j <= i + 1 THEN j ELSE j + 1] = h[p].children[j]
        /\ h2[c].is_leaf = h[c].is_leaf /\ h2[s].is_leaf = h[c].is_leaf
        /\ h2[c].keys = SubSeq(h[c].keys, 1, t - 1)
        /\ h2[s].keys = SubSeq(h[c].keys, t + 1, 2 * t - 1)
        /\ Len(h2[c].keys) = t - 1 /\ Len(h2[s].keys) = t - 1
        /\ h[c].is_leaf => h2[c].children = <<>> /\ h2[s].children = <<>>
        /\ ~h[c].is_leaf =>
               /\ h2[c].children = SubSeq(h[c].children, 1, t)
               /\ h2[s].children = SubSeq(h[c].children, t + 1, 2 * t)
               /\ Len(h2[c].children) = t /\ Len(h2[s].children) = t

\* C20: in every reachable tree, the split of every full child of a
\* non-full parent, and the split of a full root under the new root
\* insert_btree gives it, is as specified; and on the empty tree of t = 2,
\* inserting 10, 20, 5 gives the root leaf [5,10,20] and inserting 15 then
\* gives the root [10] over the leaves [5] and [15,20].
C20_SplitChild ==
    (handle = "btree" /\ BtOwned(bt_heap, bt_root)) =>
        /\ \A p \in BtNodes(bt_heap, bt_root) :
               \A i \in 0..(Len(bt_heap[p].children) - 1) :
                   (/\ num_keys(bt_heap, p) < 2 * bt_t - 1
                    /\ num_keys(bt_heap, bt_heap[p].children[i + 1]) = 2 * bt_t - 1)
                   => SplitAsSpecified(bt_heap, p, i, bt_t)
        /\ num_keys(bt_heap, bt_root) = 2 * bt_t - 1 =>
               SplitAsSpecified(insert_btree_grown(bt_heap, bt_root).h,
                                insert_btree_grown(bt_heap, bt_root).root, 0, bt_t)
        /\ (bt_t = 2 /\ bt_heap[bt_root].is_leaf /\ num_keys(bt_heap, bt_root) = 0) =>
               LET r1 == insert_btree(bt_heap, bt_root, 10, bt_t, <<>>, FALSE)
                   r2 == insert_btree(r1.h, r1.root, 20, bt_t, <<>>, FALSE)
                   r3 == insert_btree(r2.h, r2.root, 5, bt_t, <<>>, FALSE)
                   r4 == insert_btree(r3.h, r3.root, 15, bt_t, <<>>, FALSE)
               IN  /\ r3.root = bt_root
                   /\ r3.h[r3.root].is_leaf
                   /\ r3.h[r3.root].keys = <<5, 10, 20>>
                   /\ ~r4.h[r4.root].is_leaf
                   /\ r4.h[r4.root].keys = <<10>>
                   /\ Len(r4.h[r4.root].children) = 2
                   /\ r4.h[r4.root].children[1] = r3.root
                   /\ r4.h[r4.h[r4.root].children[1]].keys = <<5>>
                   /\ r4.h[r4.h[r4.root].children[2]].keys = <<15, 20>>
                   /\ r4.h[r4.h[r4.root].children[1]].is_leaf
                   /\ r4.h[r4.h[r4.root].children[2]].is_leaf

\* An insert has just returned on a tree whose root was split as an internal
\* node (one key over two internal children), and a full child sits under a
\* parent with room: the split the next insert below it performs.
C20_Witness ==
    /\ handle = "btree" /\ BtOwned(bt_heap, bt_root)
    /\ last.op = "insert"
    /\ ~bt_heap[bt_root].is_leaf
    /\ num_keys(bt_heap, bt_root) = 1
    /\ \A j \in 1..Len(bt_heap[bt_root].children) :
           ~bt_heap[bt_heap[bt_root].children[j]].is_leaf
    /\ \E p \in BtNodes(bt_heap, bt_root) :
           /\ num_keys(bt_heap, p) < 2 * bt_t - 1
           /\ \E i \in 1..Len(bt_heap[p].children) :
                  num_keys(bt_heap, bt_heap[p].children[i]) = 2 * bt_t - 1

\* ------------------------------------------------------ B-tree borrow
\* A sequence of calls on the tree [h, root]: <<"i", k>> is insert_btree of k
\* without allocation failure, <<"d", k>> is delete_btree of k.
RECURSIVE BtCalls(_, _, _, _)
BtCalls(h, root, t, calls) ==
    IF calls = <<>> THEN [h |-> h, root |-> root]
    ELSE LET r == IF Head(calls)[1] = "i"
                  THEN insert_btree(h, root, Head(calls)[2], t, <<>>, FALSE)
                  ELSE delete_btree(h, root, Head(calls)[2], t)
         IN  BtCalls(r.h, r.root, t, Tail(calls))

\* The keys of a root over two leaves: <<root keys, left keys, right keys>>.
BtTwoLeaves(r) ==
    IF r.h[r.root].is_leaf \/ Len(r.h[r.root].children) # 2 THEN <<>>
    ELSE <<r.h[r.root].keys,
           r.h[r.h[r.root].children[1]].keys,
           r.h[r.h[r.root].children[2]].keys>>

\* h2 is h after one key went from the left sibling of p's child i through
\* p into that child, with the sibling's last child when they are internal.
BorrowedFromLeft(h, h2, p, i) ==
    LET c == h[p].children[i + 1]
        l == h[p].children[i]
    IN  /\ DOMAIN h2 = DOMAIN h
        /\ \A n \in DOMAIN h \ {p, c, l} : h2[n] = h[n]
        /\ h2[p].children = h[p].children
        /\ h2[p].keys = [h[p].keys EXCEPT ![i] = h[l].keys[Len(h[l].keys)]]
        /\ h2[c].keys = <<h[p].keys[i]>> \o h[c].keys
        /\ h2[l].keys = SubSeq(h[l].keys, 1, Len(h[l].keys) - 1)
        /\ h2[c].is_leaf = h[c].is_leaf /\ h2[l].is_leaf = h[l].is_leaf
        /\ h2[c].children = IF h[c].is_leaf THEN <<>>
                            ELSE <<h[l].children[Len(h[l].children)]>> \o h[c].children
        /\ h2[l].children = IF h[l].is_leaf THEN <<>>
                            ELSE SubSeq(h[l].children, 1, Len(h[l].children) - 1)

\* The same from the right sibling, with its first key and first child.
BorrowedFromRight(h, h2, p, i) ==
    LET c == h[p].children[i + 1]
        r == h[p].children[i + 2]
    IN  /\ DOMAIN h2 = DOMAIN h
        /\ \A n \in DOMAIN h \ {p, c, r} : h2[n] = h[n]
        /\ h2[p].children = h[p].children
        /\ h2[p].keys = [h[p].keys EXCEPT ![i + 1] = h[r].keys[1]]
        /\ h2[c].keys = h[c].keys \o <<h[p].keys[i + 1]>>
        /\ h2[r].keys = Tail(h[r].keys)
        /\ h2[c].is_leaf = h[c].is_leaf /\ h2[r].is_leaf = h[r].is_leaf
        /\ h2[c].children = IF h[c].is_leaf THEN <<>>
                            ELSE h[c].children \o <<h[r].children[1]>>
        /\ h2[r].children = IF h[r].is_leaf THEN <<>> ELSE Tail(h[r].children)

\* C21: in every reachable tree, for every child that holds t-1 keys,
\* fill_child_if_needed rotates exactly one key (and, between internal
\* nodes, one child) from the left sibling when that holds at least t keys,
\* and otherwise from the right sibling when that does; and the two
\* examples of t = 2 give the trees the specification names.
C21_Borrow ==
    (handle = "btree" /\ BtOwned(bt_heap, bt_root)) =>
        /\ \A p \in BtNodes(bt_heap, bt_root) :
               \A i \in 0..(Len(bt_heap[p].children) - 1) :
                   (/\ Len(bt_heap[p].children) = num_keys(bt_heap, p) + 1
                    /\ num_keys(bt_heap, bt_heap[p].children[i + 1]) = bt_t - 1)
                   => /\ (i > 0 /\ num_keys(bt_heap, bt_heap[p].children[i]) >= bt_t)
                         => BorrowedFromLeft(bt_heap,
                                             fill_child_if_needed(bt_heap, p, i, bt_t), p, i)
                      /\ (/\ ~(i > 0 /\ num_keys(bt_heap, bt_heap[p].children[i]) >= bt_t)
                          /\ i < num_keys(bt_heap, p)
                          /\ num_keys(bt_heap, bt_heap[p].children[i + 2]) >= bt_t)
                         => BorrowedFromRight(bt_heap,
                                              fill_child_if_needed(bt_heap, p, i, bt_t), p, i)
        /\ (bt_t = 2 /\ bt_heap[bt_root].is_leaf /\ num_keys(bt_heap, bt_root) = 0) =>
               /\ BtTwoLeaves(BtCalls(bt_heap, bt_root, bt_t,
                      <<<<"i", 10>>, <<"i", 20>>, <<"i", 5>>, <<"i", 15>>>>))
                  = <<<<10>>, <<5>>, <<15, 20>>>>
               /\ BtTwoLeaves(BtCalls(bt_heap, bt_root, bt_t,
                      <<<<"i", 10>>, <<"i", 20>>, <<"i", 5>>, <<"i", 15>>, <<"d", 5>>>>))
                  = <<<<15>>, <<10>>, <<20>>>>
               /\ BtTwoLeaves(BtCalls(bt_heap, bt_root, bt_t,
                      <<<<"i", 10>>, <<"i", 15>>, <<"i", 20>>, <<"i", 5>>>>))
                  = <<<<15>>, <<5, 10>>, <<20>>>>
               /\ BtTwoLeaves(BtCalls(bt_heap, bt_root, bt_t,
                      <<<<"i", 10>>, <<"i", 15>>, <<"i", 20>>, <<"i", 5>>, <<"d", 20>>>>))
                  = <<<<10>>, <<5>>, <<15>>>>

\* A delete has just returned on a tree of three levels in which an internal
\* node with t-1 keys has a left sibling with t keys or more: the next
\* descent into it borrows a key and a child from that sibling.
C21_Witness ==
    /\ handle = "btree" /\ BtOwned(bt_heap, bt_root)
    /\ last.op = "delete"
    /\ \E p \in BtNodes(bt_heap, bt_root) :
           \E i \in 1..(Len(bt_heap[p].children) - 1) :
               /\ ~bt_heap[bt_heap[p].children[i + 1]].is_leaf
               /\ num_keys(bt_heap, bt_heap[p].children[i + 1]) = bt_t - 1
               /\ num_keys(bt_heap, bt_heap[p].children[i]) >= bt_t

\* ------------------------------------------------------- B-tree merge
\* C22: in every reachable tree, merge_children on two adjacent internal
\* children of t-1 keys each leaves in the left one the 2t-1 keys (left
\* keys, the separator, right keys) and the 2t children: those of the left
\* child in order, then those of the right child in order.
C22_MergeInternal ==
    (handle = "btree" /\ BtOwned(bt_heap, bt_root)) =>
        \A p \in BtNodes(bt_heap, bt_root) :
            \A i \in 0..(num_keys(bt_heap, p) - 1) :
                (/\ Len(bt_heap[p].children) = num_keys(bt_heap, p) + 1
                 /\ ~bt_heap[bt_heap[p].children[i + 1]].is_leaf
                 /\ ~bt_heap[bt_heap[p].children[i + 2]].is_leaf
                 /\ num_keys(bt_heap, bt_heap[p].children[i + 1]) = bt_t - 1
                 /\ num_keys(bt_heap, bt_heap[p].children[i + 2]) = bt_t - 1)
                => /\ merge_children(bt_heap, p, i, bt_t)[bt_heap[p].children[i + 1]].keys
                      = (bt_heap[bt_heap[p].children[i + 1]].keys
                         \o <<bt_heap[p].keys[i + 1]>>)
                        \o bt_heap[bt_heap[p].children[i + 2]].keys
                   /\ merge_children(bt_heap, p, i, bt_t)[bt_heap[p].children[i + 1]].children
                      = bt_heap[bt_heap[p].children[i + 1]].children
                        \o bt_heap[bt_heap[p].children[i + 2]].children

\* ----------------------------------------------- B-tree delete descent
\* C23: from every reachable tree and for every key, delete_btree enters
\* btree_delete_recursive below the root only on nodes that hold at least t
\* keys; after fill_child_if_needed merged the last child into its left
\* sibling the next node entered is that sibling; and a stored key whose
\* descent made such a merge is no longer found after the call.
C23_DescentNeverDeficient ==
    (handle = "btree" /\ BtOwned(bt_heap, bt_root)) =>
        \A key \in 0..BtMaxKey :
            /\ \A j \in 2..Len(btree_delete_recursive_calls(bt_heap, bt_root, key, bt_t)) :
                   btree_delete_recursive_calls(bt_heap, bt_root, key, bt_t)[j].n >= bt_t
            /\ \A j \in 1..Len(btree_delete_recursive_calls(bt_heap, bt_root, key, bt_t)) :
                   btree_delete_recursive_calls(bt_heap, bt_root, key, bt_t)[j].merged # NULL
                   => /\ j < Len(btree_delete_recursive_calls(bt_heap, bt_root, key, bt_t))
                      /\ btree_delete_recursive_calls(bt_heap, bt_root, key, bt_t)[j + 1].node
                         = btree_delete_recursive_calls(bt_heap, bt_root, key, bt_t)[j].merged
                      /\ (/\ search_btree(bt_heap, bt_root, key)
                          /\ ~Overrun(delete_btree(bt_heap, bt_root, key, bt_t).h))
                         => ~search_btree(delete_btree(bt_heap, bt_root, key, bt_t).h,
                                          delete_btree(bt_heap, bt_root, key, bt_t).root, key)

\* A delete has just returned, and the tree holds a key whose delete merges
\* the last child of a node into its left sibling on the way down.
C23_Witness ==
    /\ handle = "btree" /\ BtOwned(bt_heap, bt_root)
    /\ last.op = "delete"
    /\ \E key \in 1..BtMaxKey :
           /\ search_btree(bt_heap, bt_root, key)
           /\ \E j \in 1..Len(btree_delete_recursive_calls(bt_heap, bt_root, key, bt_t)) :
                  btree_delete_recursive_calls(bt_heap, bt_root, key, bt_t)[j].merged # NULL

\* ------------------------------------------------ B-tree insert descent
\* C24: from every reachable tree and for every key, insert_btree without
\* allocation failure invokes btree_insert_nonfull only on nodes that hold
\* fewer than 2t-1 keys, writes past no array, stores the key where a search
\* finds it, and leaves no node with more than 2t-1 keys; and no reachable
\* tree has such a node.
C24_InsertNeverEntersFull ==
    (handle = "btree" /\ BtOwned(bt_heap, bt_root)) =>
        /\ \A n \in BtNodes(bt_heap, bt_root) : num_keys(bt_heap, n) <= 2 * bt_t - 1
        /\ \A key \in 1..BtMaxKey :
               /\ \A j \in 1..Len(insert_btree_nonfull_calls(bt_heap, bt_root, key, bt_t)) :
                      insert_btree_nonfull_calls(bt_heap, bt_root, key, bt_t)[j] < 2 * bt_t - 1
               /\ ~Overrun(insert_btree(bt_heap, bt_root, key, bt_t, <<>>, FALSE).h)
               /\ search_btree(insert_btree(bt_heap, bt_root, key, bt_t, <<>>, FALSE).h,
                               insert_btree(bt_heap, bt_root, key, bt_t, <<>>, FALSE).root, key)
               /\ \A n \in BtNodes(insert_btree(bt_heap, bt_root, key, bt_t, <<>>, FALSE).h,
                                   insert_btree(bt_heap, bt_root, key, bt_t, <<>>, FALSE).root) :
                      num_keys(insert_btree(bt_heap, bt_root, key, bt_t, <<>>, FALSE).h, n)
                      <= 2 * bt_t - 1

\* An insert has just returned that split a full internal root, and the
\* tree holds a full leaf under a parent with room: an insert below it
\* splits the leaf before it enters it.
C24_Witness ==
    /\ handle = "btree" /\ BtOwned(bt_heap, bt_root)
    /\ last.op = "insert"
    /\ ~bt_heap[bt_root].is_leaf
    /\ num_keys(bt_heap, bt_root) = 1
    /\ ~bt_heap[bt_heap[bt_root].children[1]].is_leaf
    /\ \E key \in 1..BtMaxKey :
           /\ ~search_btree(bt_heap, bt_root, key)
           /\ Len(insert_btree_nonfull_calls(bt_heap, bt_root, key, bt_t)) = 3
           /\ insert_btree_nonfull_calls(bt_heap, bt_root, key, bt_t)[3] = bt_t - 1

\* --------------------------------------------------- B-tree root shrink
\* The number of levels below node n on the path through the first children.
RECURSIVE BtLeftDepth(_, _)
BtLeftDepth(h, n) ==
    IF h[n].is_leaf THEN 0 ELSE 1 + BtLeftDepth(h, h[n].children[1])

\* C25: in every reachable state the root is an allocated node and not an
\* internal node without keys; and from every reachable tree and for every
\* key, when btree_delete_recursive leaves the root internal and without
\* keys, delete_btree makes its children[0] the root, frees the old root and
\* changes nothing else, and the tree is one level lower than before the
\* call; otherwise root and height stay.
C25_RootShrink ==
    handle = "btree" =>
        /\ bt_root # NULL
        /\ bt_root \in DOMAIN bt_heap
        /\ ~(~bt_heap[bt_root].is_leaf /\ num_keys(bt_heap, bt_root) = 0)
        /\ BtOwned(bt_heap, bt_root) =>
               \A key \in 0..BtMaxKey :
                   (/\ ~(bt_heap[bt_root].is_leaf /\ num_keys(bt_heap, bt_root) = 0)
                    /\ ~Overrun(btree_delete_recursive(bt_heap, bt_root, key, bt_t)))
                   => IF /\ num_keys(btree_delete_recursive(bt_heap, bt_root, key, bt_t),
                                     bt_root) = 0
                         /\ ~btree_delete_recursive(bt_heap, bt_root, key, bt_t)[bt_root].is_leaf
                      THEN /\ delete_btree(bt_heap, bt_root, key, bt_t).root
                              = btree_delete_recursive(bt_heap, bt_root, key, bt_t)[bt_root]
                                    .children[1]
                           /\ delete_btree(bt_heap, bt_root, key, bt_t).root # NULL
                           /\ delete_btree(bt_heap, bt_root, key, bt_t).h
                              = Free(btree_delete_recursive(bt_heap, bt_root, key, bt_t), bt_root)
                           /\ bt_root \notin DOMAIN delete_btree(bt_heap, bt_root, key, bt_t).h
                           /\ BtLeftDepth(delete_btree(bt_heap, bt_root, key, bt_t).h,
                                          delete_btree(bt_heap, bt_root, key, bt_t).root)
                              = BtLeftDepth(bt_heap, bt_root) - 1
                      ELSE /\ delete_btree(bt_heap, bt_root, key, bt_t).root = bt_root
                           /\ delete_btree(bt_heap, bt_root, key, bt_t).h
                              = btree_delete_recursive(bt_heap, bt_root, key, bt_t)
                           /\ BtLeftDepth(delete_btree(bt_heap, bt_root, key, bt_t).h, bt_root)
                              = BtLeftDepth(bt_heap, bt_root)

\* A delete has just returned on a tree with an internal root, and the
\* delete of one of its keys leaves that root without keys: the call that
\* makes children[0] the root.
C25_Witness ==
    /\ handle = "btree" /\ BtOwned(bt_heap, bt_root)
    /\ last.op = "delete"
    /\ BtLeftDepth(bt_heap, bt_root) >= 1
    /\ \E key \in 1..BtMaxKey :
           /\ search_btree(bt_heap, bt_root, key)
           /\ ~Overrun(btree_delete_recursive(bt_heap, bt_root, key, bt_t))
           /\ num_keys(btree_delete_recursive(bt_heap, bt_root, key, bt_t), bt_root) = 0
           /\ ~btree_delete_recursive(bt_heap, bt_root, key, bt_t)[bt_root].is_leaf

\* ---------------------------------------------- B-tree, inserts only
\* The invariants of a B-tree of minimum degree t on the tree [h, root].
BtInvariants(h, root, t) ==
    /\ \A n \in BtNodes(h, root) \ {root} :
           num_keys(h, n) >= t - 1 /\ num_keys(h, n) <= 2 * t - 1
    /\ num_keys(h, root) <= 2 * t - 1
    /\ num_keys(h, root) = 0 => h[root].is_leaf
    /\ \A n \in BtNodes(h, root) :
           /\ \A i \in 1..(num_keys(h, n) - 1) : h[n].keys[i] < h[n].keys[i + 1]
           /\ h[n].is_leaf => h[n].children = <<>>
           /\ ~h[n].is_leaf =>
                  /\ Len(h[n].children) = num_keys(h, n) + 1
                  /\ \A i \in 1..Len(h[n].children) :
                         /\ h[n].children[i] \in DOMAIN h
                         /\ \A k \in BtSubtreeKeys(h, h[n].children[i]) :
                                /\ i > 1 => h[n].keys[i - 1] < k
                                /\ i <= num_keys(h, n) => k < h[n].keys[i]
    /\ Cardinality(BtLeafDepths(h, root)) = 1

\* C26: after create_btree and after each insert of a sequence of inserts
\* of pairwise distinct keys the invariants hold and search_btree is true
\* for exactly the keys the nodes hold: none after create, the key just
\* inserted among them, and, for every key not yet inserted, after its
\* insert exactly the keys found before and that key.
C26_InsertOnly ==
    handle = "btree" =>
        /\ BtInvariants(bt_heap, bt_root, bt_t)
        /\ {k \in 0..(BtInsMaxKey + 1) : search_btree(bt_heap, bt_root, k)}
           = BtSubtreeKeys(bt_heap, bt_root)
        /\ last.op = "create" => BtSubtreeKeys(bt_heap, bt_root) = {}
        /\ last.op = "insert" => search_btree(bt_heap, bt_root, last.key)
        /\ BtCount(bt_heap, bt_root) = Cardinality(BtSubtreeKeys(bt_heap, bt_root))
        /\ \A key \in 1..BtInsMaxKey :
               ~search_btree(bt_heap, bt_root, key) =>
                   /\ BtInvariants(insert_btree(bt_heap, bt_root, key, bt_t, <<>>, FALSE).h,
                                   insert_btree(bt_heap, bt_root, key, bt_t, <<>>, FALSE).root,
                                   bt_t)
                   /\ {k \in 0..(BtInsMaxKey + 1) :
                          search_btree(insert_btree(bt_heap, bt_root, key, bt_t, <<>>, FALSE).h,
                                       insert_btree(bt_heap, bt_root, key, bt_t, <<>>, FALSE).root,
                                       k)}
                      = BtSubtreeKeys(bt_heap, bt_root) \cup {key}

\* Every key of the range has been inserted into the tree of t = 2, which
\* has three levels.
C26_Witness ==
    /\ handle = "btree"
    /\ last.op = "insert"
    /\ BtSubtreeKeys(bt_heap, bt_root) = 1..BtInsMaxKey
    /\ bt_t = 2
    /\ BtLeafDepths(bt_heap, bt_root) = {2}

\* ------------------------------------------- AVL delete, two children
\* C27: from every reachable tree, the delete of a key whose node has two
\* children returns 0, frees exactly the node that held the in-order
\* successor, the minimum of the right subtree, and leaves the node that
\* held the key allocated, in the tree, with the successor's key.
C27_SuccessorNodeFreed ==
    handle = "avl" =>
        \A k \in AvlKeys :
            (/\ AvlStored(avl_heap, avl_root, k)
             /\ avl_heap[search_in_avl_tree(avl_heap, avl_root, k)].left # NULL
             /\ avl_heap[search_in_avl_tree(avl_heap, avl_root, k)].right # NULL)
            => LET z    == search_in_avl_tree(avl_heap, avl_root, k)
                   succ == find_min_node_internal(avl_heap, avl_heap[z].right)
                   r    == delete_from_avl_tree(avl_heap, avl_root, avl_size, k)
               IN  /\ r.ret = 0
                   /\ succ # z
                   /\ avl_heap[succ].left = NULL
                   /\ \A n \in AvlNodes(avl_heap, avl_heap[z].right) :
                          avl_heap[succ].key <= avl_heap[n].key
                   /\ DOMAIN r.h = DOMAIN avl_heap \ {succ}
                   /\ z \in AvlNodes(r.h, r.root)
                   /\ r.h[z].key = avl_heap[succ].key
                   /\ search_in_avl_tree(r.h, r.root, avl_heap[succ].key) = z
                   /\ \A n \in DOMAIN r.h \ {z} : r.h[n].key = avl_heap[n].key

\* A delete has just returned 0, and the tree holds a key whose node has two
\* children and whose successor lies below the right child.
C27_Witness ==
    /\ handle = "avl"
    /\ last.op = "delete" /\ last.ret = 0
    /\ \E k \in AvlKeys :
           /\ AvlStored(avl_heap, avl_root, k)
           /\ avl_heap[search_in_avl_tree(avl_heap, avl_root, k)].left # NULL
           /\ avl_heap[search_in_avl_tree(avl_heap, avl_root, k)].right # NULL
           /\ avl_heap[avl_heap[search_in_avl_tree(avl_heap, avl_root, k)].right].left # NULL

\* ---------------------------------------- red-black delete, node identity
\* C28: from every reachable tree, the delete of a stored key frees the
\* node that held it and no other, and every other node holds the key it
\* held before; when that node z has two children, its successor y is, when
\* z is freed, linked where z was: under z's parent (or as root), over z's
\* left child and, unless y was z's right child, over z's right child, with
\* z's color, and y holds its own key.
C28_NodeIdentityOnDelete ==
    handle = "rb" =>
        \A k \in RbKeys :
            RbStored(RbTree, k) =>
                LET z == search_rbnode(RbTree, k)
                    y == rbtree_minimum_node(rb_heap, rb_heap[z].right)
                    u == rb_delete_unlink(RbTree, z).T
                    r == delete_rbnode(RbTree, rb_size, k)
                IN  /\ r.ret = 0
                    /\ DOMAIN r.T.h = DOMAIN rb_heap \ {z}
                    /\ \A n \in DOMAIN r.T.h \ {NIL} : r.T.h[n].data = rb_heap[n].data
                    /\ RbNodes(r.T.h, r.T.root) = DOMAIN rb_heap \ {z, NIL}
                    /\ (rb_heap[z].left # NIL /\ rb_heap[z].right # NIL) =>
                           /\ y # z /\ y \in DOMAIN r.T.h
                           /\ u.h[y].data = rb_heap[y].data
                           /\ u.h[y].color = rb_heap[z].color
                           /\ u.h[y].parent = rb_heap[z].parent
                           /\ u.h[y].left = rb_heap[z].left
                           /\ u.h[rb_heap[z].left].parent = y
                           /\ rb_heap[z].right # y =>
                                  /\ u.h[y].right = rb_heap[z].right
                                  /\ u.h[rb_heap[z].right].parent = y
                           /\ IF rb_heap[z].parent = NIL
                              THEN u.root = y
                              ELSE /\ u.root = rb_root
                                   /\ rb_heap[rb_heap[z].parent].left = z
                                      => u.h[rb_heap[z].parent].left = y
                                   /\ rb_heap[rb_heap[z].parent].right = z
                                      => u.h[rb_heap[z].parent].right = y

\* A delete has just returned 0, and the tree holds a key whose node has two
\* children, a color other than its successor's, and a successor below its
\* right child.
C28_Witness ==
    /\ handle = "rb"
    /\ last.op = "delete" /\ last.ret = 0
    /\ \E k \in RbKeys :
           /\ RbStored(RbTree, k)
           /\ rb_heap[search_rbnode(RbTree, k)].left # NIL
           /\ rb_heap[search_rbnode(RbTree, k)].right # NIL
           /\ rb_heap[rb_heap[search_rbnode(RbTree, k)].right].left # NIL
           /\ rb_heap[rbtree_minimum_node(rb_heap, rb_heap[search_rbnode(RbTree, k)].right)].color
              # rb_heap[search_rbnode(RbTree, k)].color

RbParentsConsistent(T) ==
    /\ T.root # NIL => T.h[T.root].parent = NIL
    /\ \A n \in Range(RbPreorder(T.h, T.root)) :
           /\ T.h[n].left # NIL  => T.h[T.h[n].left].parent = n
           /\ T.h[n].right # NIL => T.h[T.h[n].right].parent = n

\* C30: in a red-black tree the parent links are consistent with the child
\* links after every completed insert and delete: in the tree as it stands,
\* and in the tree insert_rbnode and delete_rbnode leave for every key,
\* whatever they return, the root's parent is the sentinel and each
\* non-sentinel child of a node points back to that node.
C30_ParentLinksConsistent ==
    handle = "rb" =>
        /\ RbParentsConsistent(RbTree)
        /\ \A k \in RbKeys :
               /\ RbParentsConsistent(insert_rbnode(RbTree, rb_size, k, TRUE).T)
               /\ RbParentsConsistent(delete_rbnode(RbTree, rb_size, k).T)

\* A delete has just returned 0 leaving a tree of at least three keys whose
\* sentinel holds a stale parent, and the tree holds a node with two children
\* whose delete relinks the successor and then rotates.
C30_Witness ==
    /\ handle = "rb"
    /\ last.op = "delete" /\ last.ret = 0
    /\ rb_size >= 3
    /\ rb_heap[NIL].parent # NIL
    /\ \E k \in RbKeys :
           LET z == search_rbnode(RbTree, k)
           IN  /\ z # NIL
               /\ rb_heap[z].left # NIL /\ rb_heap[z].right # NIL
               /\ rb_delete_finish_rotations(rb_delete_unlink(RbTree, z), z) >= 1

====
